---- MODULE Spec2Model ----
(***************************************************************************)
(* CryptoRiskGuard (openserv-ha): the AnalysisAgent's risk aggregation and *)
(* the scorers that feed it.                                               *)
(*                                                                         *)
(* Numbers.  JavaScript numbers are modelled by exact integers:            *)
(*   - a sentimentScore s in [-1,1] is carried in hundredths (k = 100*s);  *)
(*   - every score handled by the aggregation is carried in half points    *)
(*     (value * 2), so that the normalised sentiment score                 *)
(*     (1 - (s+1)/2) * 100 = (100 - k) / 2 stays an integer;               *)
(*   - the category weights 0.35/0.2/0.25/0.2 are carried in hundredths.   *)
(* The arithmetic is exact: the rounding error of IEEE-754 doubles is not  *)
(* modelled, so properties are stated so as not to depend on which way a   *)
(* quotient lying exactly on .5 is rounded.                                *)
(***************************************************************************)
EXTENDS Integers, Sequences, FiniteSets, TLC

(***************************************************************************)
(* Bounds of the explored input space.                                     *)
(***************************************************************************)
\* number of equal steps of the integer score grid over 0..100
ScoreSteps == 4
\* number of equal steps of the sentiment grid over -1..1
SentimentSteps == 8
\* most tweets handed to the sentiment scorer
MaxTweets == 2
\* longest price series handed to the market scorer
MaxPrices == 3
\* most trading pairs handed to the DEX scorer
MaxPairs == 4
\* most calls made between a call and its repetition
MaxCallsBetween == 1
\* most days that pass between two calls
MaxElapsedDays == 4
\* longest factor list handed to the aggregation
MaxFactors == 4
MaxAgeDays == 120

\* the day of the first clock reading
StartDay == 1000

Cats == <<"blockchain", "social", "market", "dex">>
CatSet == {Cats[i] : i \in 1..4}

Min(a, b) == IF a < b THEN a ELSE b
Max(a, b) == IF a > b THEN a ELSE b
Abs(a) == IF a < 0 THEN -a ELSE a

\* Math.round(num / den) for den > 0: floor(x + 1/2)
MathRound(num, den) == (2 * num + den) \div (2 * den)

\* the last n elements instead of the first n
SliceLast(s, n) == SubSeq(s, Len(s) - Min(Len(s), n) + 1, Len(s))

\* Array.prototype.slice(0, n)
Slice(s, n) == SubSeq(s, 1, Min(Len(s), n))

\* the factor strings of a list of n factors, in detection order
Factors(n) == [i \in 1..n |-> i]

\* factor => `[Tag] ${factor}`
Tagged(tag, s) == [i \in 1..Len(s) |-> <<tag, s[i]>>]

(***************************************************************************)
(* The state of the agents.                                                *)
(***************************************************************************)
VARIABLES
  pc,          \* where performRiskAnalysis stands
  request,     \* the latest chat message being answered
  outcome,     \* per category: what the capability call did
  data,        \* blockchainData, socialData, marketData, dexData
  attempted,   \* the get...RiskData calls made so far, in order
  messages,    \* sendChatMessage calls of the current action, in order
  assessment,  \* the ComprehensiveRiskAssessment of the current action
  call, args, result,  \* a direct call of a method or capability
  again,       \* what the same call with the same arguments returns later
  between,     \* the calls made between the two
  now,         \* new Date(), in whole days
  patternFound \* the names of the securityPatterns whose found is true

vars == <<pc, request, outcome, data, attempted, messages, assessment, call, args,
          result, again, between, now, patternFound>>

(***************************************************************************)
(* Risk levels, as each agent derives them from a score.                   *)
(***************************************************************************)
\* BlockchainAgent: riskScore >= 70 ? 'High' : riskScore >= 40 ? 'Medium' : 'Low'
blockchainRiskLevel(riskScore) ==
  IF riskScore >= 70 THEN "High"
  ELSE IF riskScore >= 40 THEN "Medium"
  ELSE "Low"

\* SocialMediaAgent.calculateTwitterRiskAssessment: two independent ifs
socialRiskLevel(riskScore) ==
  LET l0 == "Medium"
      l1 == IF riskScore < 40 THEN "Low" ELSE l0
      l2 == IF riskScore > 70 THEN "High" ELSE l1
  IN l2

\* MarketAnalysisAgent.calculateMarketRiskAssessment
marketRiskLevel(riskScore) ==
  IF riskScore < 40 THEN "Low"
  ELSE IF riskScore > 70 THEN "High"
  ELSE "Medium"

\* DexScreenerAgent.calculateDexRiskAssessment
lowBelowSixty(riskScore) ==
  IF riskScore < 60 THEN "Low"
  ELSE IF riskScore > 70 THEN "High"
  ELSE "Medium"

dexRiskLevel(riskScore) ==
  IF riskScore < 40 THEN "Low"
  ELSE IF riskScore > 70 THEN "High"
  ELSE "Medium"

\* AnalysisAgent.calculateComprehensiveRisk
overallRiskLevel(overallRiskScore) ==
  IF overallRiskScore < 40 THEN "Low"
  ELSE IF overallRiskScore > 70 THEN "High"
  ELSE "Medium"

\* SocialMediaAgent: riskScore = Math.round(((1 - overallSentimentScore) / 2) * 100)
\* with the sentiment k in hundredths: ((1 - k/100) / 2) * 100 = (100 - k) / 2
socialRiskScore(k) == MathRound(100 - k, 2)

(***************************************************************************)
(* The records JSON.parse hands to the aggregation.  kind "null" is the    *)
(* JavaScript null; kind "incomplete" is a parsed object that lacks the    *)
(* fields the aggregation reads (riskFactors, ...).                        *)
(***************************************************************************)
Null == [kind |-> "null"]
Incomplete == [kind |-> "incomplete"]
TypeError == [kind |-> "TypeError"]

\* JavaScript truthiness of a parsed record
Truthy(d) == d.kind # "null"

BlockchainRiskData(riskScore, nRisk) ==
  [kind |-> "data", riskScore |-> riskScore,
   riskLevel |-> blockchainRiskLevel(riskScore),
   riskFactors |-> Factors(nRisk), positiveFactors |-> << >>]

SocialRiskData(sentimentScore, nRisk, nPos) ==
  [kind |-> "data", sentimentScore |-> sentimentScore,
   riskLevel |-> socialRiskLevel(socialRiskScore(sentimentScore)),
   riskFactors |-> Factors(nRisk), positiveFactors |-> Factors(nPos)]

MarketRiskData(riskScore, nRisk, nPos) ==
  [kind |-> "data", riskScore |-> riskScore,
   riskLevel |-> marketRiskLevel(riskScore),
   riskFactors |-> Factors(nRisk), positiveFactors |-> Factors(nPos)]

DexRiskData(riskScore, nRisk, nPos) ==
  [kind |-> "data", dex_risk_score |-> riskScore,
   dex_risk_level |-> dexRiskLevel(riskScore),
   red_flags |-> Factors(nRisk), positive_indicators |-> Factors(nPos)]

(***************************************************************************)
(* AnalysisAgent.calculateComprehensiveRisk                                *)
(***************************************************************************)
\* the weights written in the four if-blocks, in hundredths
blockchainWeight == 35
socialWeight == 20
marketWeight == 25
dexWeight == 20

\* the sentiment taken as a score without normalisation, in half points
sentimentAsScore(socialData) == 2 * socialData.sentimentScore

\* normalizedScore = (1 - (sentimentScore + 1) / 2) * 100, in half points
normalizedScore(socialData) == 200 - (socialData.sentimentScore + 100)

\* the denominator of a plain weighted sum: every weight counted, whether
\* or not the category is present
totalWeightAll(blockchainData, socialData, marketData, dexData) ==
  blockchainWeight + socialWeight + marketWeight + dexWeight

\* totalWeight after the four if-blocks (hundredths)
totalWeightOf(blockchainData, socialData, marketData, dexData) ==
  LET t0 == 0
      t1 == IF Truthy(blockchainData) THEN t0 + blockchainWeight ELSE t0
      t2 == IF Truthy(socialData) THEN t1 + socialWeight ELSE t1
      t3 == IF Truthy(marketData) THEN t2 + marketWeight ELSE t2
      t4 == IF Truthy(dexData) THEN t3 + dexWeight ELSE t3
  IN t4

\* weightedScore after the four if-blocks (half points * hundredths)
weightedScoreOf(blockchainData, socialData, marketData, dexData) ==
  LET w0 == 0
      w1 == IF Truthy(blockchainData)
            THEN w0 + 2 * blockchainData.riskScore * blockchainWeight ELSE w0
      w2 == IF Truthy(socialData)
            THEN w1 + normalizedScore(socialData) * socialWeight ELSE w1
      w3 == IF Truthy(marketData)
            THEN w2 + 2 * marketData.riskScore * marketWeight ELSE w2
      w4 == IF Truthy(dexData)
            THEN w3 + 2 * dexData.dex_risk_score * dexWeight ELSE w3
  IN w4

\* a breakdown that holds the present categories only
riskBreakdownPresentOnly(blockchainData, socialData, marketData, dexData) ==
  [c \in {x \in CatSet :
            \/ x = "blockchain" /\ Truthy(blockchainData)
            \/ x = "social" /\ Truthy(socialData)
            \/ x = "market" /\ Truthy(marketData)
            \/ x = "dex" /\ Truthy(dexData)} |->
     CASE c = "blockchain" -> 2 * blockchainData.riskScore
       [] c = "social" -> normalizedScore(socialData)
       [] c = "market" -> 2 * marketData.riskScore
       [] c = "dex" -> 2 * dexData.dex_risk_score]

\* riskBreakdown: initialised to 0 and overwritten per present category
\* (half points)
riskBreakdownOf(blockchainData, socialData, marketData, dexData) ==
  [blockchain |-> IF Truthy(blockchainData) THEN 2 * blockchainData.riskScore ELSE 0,
   social |-> IF Truthy(socialData) THEN normalizedScore(socialData) ELSE 0,
   market |-> IF Truthy(marketData) THEN 2 * marketData.riskScore ELSE 0,
   dex |-> IF Truthy(dexData) THEN 2 * dexData.dex_risk_score ELSE 0]

\* the weighted sum rounded without dividing by the weight present
unnormalizedRiskScoreOf(weightedScore, totalWeight) ==
  MathRound(weightedScore, 2 * 100)

\* overallRiskScore = totalWeight > 0 ? Math.round(weightedScore / totalWeight) : 50
overallRiskScoreOf(weightedScore, totalWeight) ==
  IF totalWeight > 0 THEN MathRound(weightedScore, 2 * totalWeight) ELSE 50

\* the per-category detail entry (blockchainRisk, socialRisk, ...)
Detail(score, level, issues, positives) ==
  [kind |-> "data", score |-> score, level |-> level,
   keyIssues |-> Slice(issues, 3), positiveFactors |-> Slice(positives, 3)]

calculateComprehensiveRisk(blockchainData, socialData, marketData, dexData) ==
  IF \/ blockchainData.kind = "incomplete" \/ socialData.kind = "incomplete"
     \/ marketData.kind = "incomplete" \/ dexData.kind = "incomplete"
  THEN TypeError
  ELSE
  LET riskBreakdown == riskBreakdownOf(blockchainData, socialData, marketData, dexData)
      totalWeight == totalWeightOf(blockchainData, socialData, marketData, dexData)
      weightedScore == weightedScoreOf(blockchainData, socialData, marketData, dexData)
      overallRiskScore == overallRiskScoreOf(weightedScore, totalWeight)
      r1 == IF Truthy(blockchainData)
            THEN Tagged("Blockchain", Slice(blockchainData.riskFactors, 3)) ELSE << >>
      r2 == IF Truthy(socialData)
            THEN r1 \o Tagged("Social", Slice(socialData.riskFactors, 2)) ELSE r1
      r3 == IF Truthy(marketData)
            THEN r2 \o Tagged("Market", Slice(marketData.riskFactors, 2)) ELSE r2
      r4 == IF Truthy(dexData)
            THEN r3 \o Tagged("DEX", Slice(dexData.red_flags, 2)) ELSE r3
      p2 == IF Truthy(socialData)
            THEN Tagged("Social", Slice(socialData.positiveFactors, 2)) ELSE << >>
      p3 == IF Truthy(marketData)
            THEN p2 \o Tagged("Market", Slice(marketData.positiveFactors, 2)) ELSE p2
      p4 == IF Truthy(dexData)
            THEN p3 \o Tagged("DEX", Slice(dexData.positive_indicators, 2)) ELSE p3
  IN [kind |-> "assessment",
      analysisTime |-> now,
      overallRiskScore |-> overallRiskScore,
      overallRiskLevel |-> overallRiskLevel(overallRiskScore),
      riskBreakdown |-> riskBreakdown,
      riskFactors |-> r4,
      positiveFactors |-> p4,
      blockchainRisk |-> IF Truthy(blockchainData)
        THEN Detail(2 * blockchainData.riskScore, blockchainData.riskLevel,
                    blockchainData.riskFactors, << >>)
        ELSE Null,
      socialRisk |-> IF Truthy(socialData)
        THEN Detail(riskBreakdown.social, socialData.riskLevel,
                    socialData.riskFactors, socialData.positiveFactors)
        ELSE Null,
      marketRisk |-> IF Truthy(marketData)
        THEN Detail(2 * marketData.riskScore, marketData.riskLevel,
                    marketData.riskFactors, marketData.positiveFactors)
        ELSE Null,
      dexRisk |-> IF Truthy(dexData)
        THEN Detail(2 * dexData.dex_risk_score, dexData.dex_risk_level,
                    dexData.red_flags, dexData.positive_indicators)
        ELSE Null]


(***************************************************************************)
(* The fetch boundary of the AnalysisAgent.  A response is what            *)
(* callAgentCapability does: it resolves null (what the stub in the source *)
(* does), rejects, resolves a string JSON.parse rejects, or resolves a     *)
(* string that parses to a value.                                          *)
(***************************************************************************)
ResolvesNull == [kind |-> "null"]
Rejects == [kind |-> "throws"]
Unparseable == [kind |-> "malformed"]
NotCalled == [kind |-> "notCalled"]
Pending == [kind |-> "pending"]
Json(v) == [kind |-> "json", value |-> v]

\* a promise that rejected
Thrown == [kind |-> "thrown"]

\* the same body without its try/catch: a rejected call and an unparseable
\* string reject the method's own promise
parseResponseUncaught(response) ==
  CASE response.kind = "throws" -> Thrown
    [] response.kind = "null" -> Null
    [] response.kind = "malformed" -> Thrown
    [] response.kind = "json" -> response.value
    [] OTHER -> Null

\* the body shared by the four get...RiskData methods:
\* try { response = await call; if (!response) return null;
\*       return JSON.parse(response) } catch { return null }
parseResponse(response) ==
  CASE response.kind = "throws" -> Null
    [] response.kind = "null" -> Null
    [] response.kind = "malformed" -> Null
    [] response.kind = "json" -> response.value
    [] OTHER -> Null

\* getBlockchainRiskData: no call at all unless the identifier is an address
getBlockchainRiskData(isAddress, response) ==
  IF ~isAddress THEN Null ELSE parseResponse(response)

getSocialRiskData(response) == parseResponse(response)

getMarketRiskData(response) == parseResponse(response)

getDexRiskData(response) == parseResponse(response)

\* an order of awaits that goes to the join without the DEX fetch
nextPcSkipping(c) ==
  CASE c = "blockchain" -> "social"
    [] c = "social" -> "market"
    [] c = "market" -> "join"
    [] c = "dex" -> "join"

\* the order of the four awaits of performRiskAnalysis
nextPc(c) ==
  CASE c = "blockchain" -> "social"
    [] c = "social" -> "market"
    [] c = "market" -> "dex"
    [] c = "dex" -> "join"

\* a join without the insufficient-data check: always aggregate and report
aggregateAlways(blockchainData, socialData, marketData, dexData) ==
  LET a == calculateComprehensiveRisk(blockchainData, socialData, marketData, dexData)
  IN IF a.kind = "TypeError"
     THEN [assessment |-> Null, replies |-> <<"error">>]
     ELSE [assessment |-> a, replies |-> <<"report">>]

\* a join whose catch block sends nothing
joinOutcomeSilent(blockchainData, socialData, marketData, dexData) ==
  IF ~Truthy(blockchainData) /\ ~Truthy(socialData)
     /\ ~Truthy(marketData) /\ ~Truthy(dexData)
  THEN [assessment |-> Null, replies |-> <<"insufficient">>]
  ELSE LET a == calculateComprehensiveRisk(blockchainData, socialData, marketData, dexData)
       IN IF a.kind = "TypeError"
          THEN [assessment |-> Null, replies |-> << >>]
          ELSE [assessment |-> a, replies |-> <<"report">>]

\* performRiskAnalysis after the fourth await: the insufficient-data check,
\* the aggregation, the report, and the catch block around them.
\* Gives the assessment kept and the chat messages sent.
joinOutcome(blockchainData, socialData, marketData, dexData) ==
  IF ~Truthy(blockchainData) /\ ~Truthy(socialData)
     /\ ~Truthy(marketData) /\ ~Truthy(dexData)
  THEN [assessment |-> Null, replies |-> <<"insufficient">>]
  ELSE LET a == calculateComprehensiveRisk(blockchainData, socialData, marketData, dexData)
       IN IF a.kind = "TypeError"
          THEN [assessment |-> Null, replies |-> <<"error">>]
          ELSE [assessment |-> a, replies |-> <<"report">>]

(***************************************************************************)
(* Capabilities of the AnalysisAgent (their run functions).                *)
(***************************************************************************)
ErrorJson(why) == [kind |-> "error", error |-> why]

performRiskAssessment(isAddress, rb, rs, rm, rd) ==
  LET blockchainData == getBlockchainRiskData(isAddress, rb)
      socialData == getSocialRiskData(rs)
      marketData == getMarketRiskData(rm)
      dexData == getDexRiskData(rd)
  IN IF Thrown \in {blockchainData, socialData, marketData, dexData}
     THEN ErrorJson("Error performing risk assessment")
     ELSE IF ~Truthy(blockchainData) /\ ~Truthy(socialData)
             /\ ~Truthy(marketData) /\ ~Truthy(dexData)
     THEN ErrorJson("Insufficient data available")
     ELSE LET a == calculateComprehensiveRisk(blockchainData, socialData, marketData, dexData)
          IN IF a.kind = "TypeError"
             THEN ErrorJson("Error performing risk assessment")
             ELSE a

\* x?.riskScore || 0, in half points
ScoreOrZero(d, score) == IF Truthy(d) THEN 2 * score ELSE 0

getRiskBreakdown(isAddress, rb, rs, rm, rd) ==
  LET blockchainData == getBlockchainRiskData(isAddress, rb)
      socialData == getSocialRiskData(rs)
      marketData == getMarketRiskData(rm)
      dexData == getDexRiskData(rd)
  IN IF Thrown \in {blockchainData, socialData, marketData, dexData}
     THEN ErrorJson("Error getting risk breakdown")
     ELSE IF ~Truthy(blockchainData) /\ ~Truthy(socialData)
             /\ ~Truthy(marketData) /\ ~Truthy(dexData)
     THEN ErrorJson("Insufficient data available")
     ELSE IF Incomplete \in {blockchainData, socialData, marketData, dexData}
     THEN ErrorJson("Error getting risk breakdown")
     ELSE
     LET r1 == IF Truthy(blockchainData)
               THEN Tagged("Blockchain", blockchainData.riskFactors) ELSE << >>
         r2 == IF Truthy(socialData)
               THEN r1 \o Tagged("Social", socialData.riskFactors) ELSE r1
         r3 == IF Truthy(marketData)
               THEN r2 \o Tagged("Market", marketData.riskFactors) ELSE r2
         r4 == IF Truthy(dexData)
               THEN r3 \o Tagged("DEX", dexData.red_flags) ELSE r3
     IN [kind |-> "breakdown",
         riskFactors |-> r4,
         riskBreakdown |->
           [blockchain |-> IF Truthy(blockchainData)
                           THEN ScoreOrZero(blockchainData, blockchainData.riskScore) ELSE 0,
            social |-> IF Truthy(socialData) THEN normalizedScore(socialData) ELSE 0,
            market |-> IF Truthy(marketData)
                       THEN ScoreOrZero(marketData, marketData.riskScore) ELSE 0,
            dex |-> IF Truthy(dexData)
                    THEN ScoreOrZero(dexData, dexData.dex_risk_score) ELSE 0]]

(***************************************************************************)
(* Input spaces.                                                           *)
(***************************************************************************)
\* integer scores a scorer can report: the grid, the level boundaries and
\* the scores of the documented example
Scores ==
  {(100 * i) \div ScoreSteps : i \in 0..ScoreSteps} \cup {39, 40, 70, 71} \cup {30, 50}

\* sentiment scores in hundredths: the grid over [-1, 1], the example 0.6
\* and 0.25, whose normalised score 37.5 is not an integer
Sentiments ==
  {(200 * i) \div SentimentSteps - 100 : i \in 0..SentimentSteps} \cup {25, 60}

\* inputs of a direct call: scores vary, factor lists at full length
ScoreInputs ==
  [blockchain : {Null} \cup {BlockchainRiskData(s, MaxFactors) : s \in Scores},
   social : {Null} \cup {SocialRiskData(k, MaxFactors, MaxFactors) : k \in Sentiments},
   market : {Null} \cup {MarketRiskData(s, MaxFactors, MaxFactors) : s \in Scores},
   dex : {Null} \cup {DexRiskData(s, MaxFactors, MaxFactors) : s \in Scores}]

\* inputs of a direct call: factor list lengths vary, scores fixed
FactorInputs ==
  [blockchain : {Null} \cup {BlockchainRiskData(50, n) : n \in 0..MaxFactors},
   social : {Null} \cup {SocialRiskData(0, n, MaxFactors - n) : n \in 0..MaxFactors},
   market : {Null} \cup {MarketRiskData(50, n, MaxFactors - n) : n \in 0..MaxFactors},
   dex : {Null} \cup {DexRiskData(50, n, MaxFactors - n) : n \in 0..MaxFactors}]

\* what a capability call of another agent can answer during a request
Responses(c) ==
  {ResolvesNull, Rejects, Unparseable, Json(Incomplete)} \cup
  CASE c = "blockchain" -> {Json(BlockchainRiskData(s, MaxFactors)) : s \in {0, 70, 100}}
    [] c = "social" -> {Json(SocialRiskData(k, MaxFactors, MaxFactors)) : k \in {-75, 60, 100}}
    [] c = "market" -> {Json(MarketRiskData(s, MaxFactors, MaxFactors)) : s \in {0, 70, 100}}
    [] c = "dex" -> {Json(DexRiskData(s, MaxFactors, MaxFactors)) : s \in {0, 70, 100}}

(***************************************************************************)
(* BlockchainAgent: the assessBlockchainRisk capability and the methods it *)
(* calls.  Holder percentages are carried in hundredths of a percent.      *)
(***************************************************************************)
\* this.securityPatterns: name -> severity
securityPatterns ==
  [n \in {"Owner privileges", "Hidden minting", "Fee manipulation",
          "Proxy pattern", "Transfer restrictions"} |->
     IF n = "Hidden minting" THEN "High" ELSE "Medium"]

PatternOrder ==
  <<"Owner privileges", "Hidden minting", "Fee manipulation",
    "Proxy pattern", "Transfer restrictions">>

\* the percentages of getMockTokenHolders()
getMockTokenHolders ==
  <<2500, 1250, 750, 500, 500, 250, 250, 250, 250, 250, 3250>>

\* a provider call that threw or answered with an error status
Failed == [kind |-> "failed"]

\* isContractVerified: false on any failure
isContractVerified(v) == IF v = Failed THEN FALSE ELSE v.verified

\* getContractInfo: {} on any failure
EmptyObject == [kind |-> "empty"]
getContractInfo(c) == IF c = Failed THEN EmptyObject ELSE c

\* getTokenInfo: {} on any failure
getTokenInfo(t) == IF t = Failed THEN EmptyObject ELSE t

\* holders without the mock fallback: an empty list on failure
holdersOrNone(h) == IF h = Failed THEN << >> ELSE h.percentages

\* getTokenHolders: the mock list when there is no key, on an unexpected
\* format and on an error
getTokenHolders(h) == IF h = Failed THEN getMockTokenHolders ELSE h.percentages

\* getTransactionHistory: [] on any failure
getTransactionHistory(x) == IF x = Failed THEN 0 ELSE x.largeRecent

\* contractInfo.implementation, contractInfo.createdTimestamp,
\* contractInfo.sourceCode and tokenInfo.name/symbol read off a possibly
\* empty object
HasImplementation(contractInfo) ==
  contractInfo.kind = "ok" /\ contractInfo.implementation
HasTimestamp(contractInfo) ==
  contractInfo.kind = "ok" /\ contractInfo.hasTimestamp

\* the age counted in weeks instead of days
ageInWeeks(contractInfo) == (now - contractInfo.createdTimestamp) \div 7

\* Math.floor((now.getTime() - creationDate.getTime()) / (1000 * 60 * 60 * 24))
\* with createdTimestamp in whole days
ageInDays(contractInfo) == now - contractInfo.createdTimestamp
HasSourceCode(contractInfo) ==
  contractInfo.kind = "ok" /\ contractInfo.hasSourceCode
HasNameAndSymbol(tokenInfo) ==
  tokenInfo.kind = "ok" /\ tokenInfo.named

RECURSIVE SortDescending(_)
SortDescending(s) ==
  IF Len(s) = 0 THEN << >>
  ELSE LET i == CHOOSE i \in 1..Len(s) : \A j \in 1..Len(s) : s[i] >= s[j]
           rest == [k \in 1..(Len(s) - 1) |-> IF k < i THEN s[k] ELSE s[k + 1]]
       IN <<s[i]>> \o SortDescending(rest)

\* every holder list read as one holder owning everything
concentrationWorstCase(holders) ==
  [topHolderPercentage |-> 10000, top10Percentage |-> 10000,
   holderCount |-> Len(holders)]

RECURSIVE SumSeq(_)
SumSeq(s) == IF Len(s) = 0 THEN 0 ELSE s[1] + SumSeq(Tail(s))

calculateConcentrationMetrics(holders) ==
  IF Len(holders) = 0
  THEN [topHolderPercentage |-> 0, top10Percentage |-> 0, holderCount |-> 0]
  ELSE LET sortedHolders == SortDescending(holders)
       IN [topHolderPercentage |-> sortedHolders[1],
           top10Percentage |-> SumSeq(Slice(sortedHolders, 10)),
           holderCount |-> Len(holders)]

\* found flags that are set by a match and never cleared
foundNeverCleared(flags, matched) == flags \cup matched

\* patterns.forEach: every pattern's found is assigned, whatever it was;
\* matched are the names of the patterns the source code matches
foundAfterAnalysis(flags, matched) ==
  {n \in DOMAIN securityPatterns : n \in matched}

\* analyzeContractCode: the patterns whose found is true after the pass
\* over the shared pattern objects, in list order
analyzeContractCode(matched) ==
  SelectSeq(PatternOrder, LAMBDA n : n \in foundAfterAnalysis(patternFound, matched))

RECURSIVE PatternPoints(_)
PatternPoints(patterns) ==
  IF Len(patterns) = 0 THEN 0
  ELSE (CASE securityPatterns[patterns[1]] = "High" -> 20
          [] securityPatterns[patterns[1]] = "Medium" -> 10
          [] securityPatterns[patterns[1]] = "Low" -> 5
          [] OTHER -> 0) + PatternPoints(Tail(patterns))

calculateBlockchainRiskScore(isVerified, contractInfo, tokenInfo, holderDistribution, patterns) ==
  LET s0 == 0
      s1 == IF ~isVerified THEN s0 + 50 ELSE s0
      s2 == IF HasImplementation(contractInfo) THEN s1 + 20 ELSE s1
      s3 == IF ~HasNameAndSymbol(tokenInfo) THEN s2 + 10 ELSE s2
      s4 == IF HasTimestamp(contractInfo)
            THEN (IF ageInDays(contractInfo) < 7 THEN s3 + 20
                  ELSE IF ageInDays(contractInfo) < 30 THEN s3 + 10
                  ELSE IF ageInDays(contractInfo) < 90 THEN s3 + 5
                  ELSE s3)
            ELSE s3 + 5
      m == calculateConcentrationMetrics(holderDistribution)
      s5 == IF m.topHolderPercentage > 5000 THEN s4 + 30
            ELSE IF m.topHolderPercentage > 2000 THEN s4 + 15
            ELSE IF m.topHolderPercentage > 1000 THEN s4 + 5
            ELSE s4
      s6 == IF m.top10Percentage > 9000 THEN s5 + 20
            ELSE IF m.top10Percentage > 8000 THEN s5 + 10
            ELSE IF m.top10Percentage > 7000 THEN s5 + 5
            ELSE s5
      s7 == s6 + PatternPoints(patterns)
  IN Min(100, s7)

PatternFactors(patterns) ==
  SelectSeq(patterns, LAMBDA n : securityPatterns[n] \in {"High", "Medium"})

identifyRiskFactors(isVerified, contractInfo, tokenInfo, holderDistribution, largeRecent, patterns) ==
  LET m == calculateConcentrationMetrics(holderDistribution)
      f1 == IF ~isVerified THEN <<"Contract source code is not verified">> ELSE << >>
      f2 == IF HasImplementation(contractInfo) THEN <<"This is a proxy contract">> ELSE << >>
      f3 == IF ~HasNameAndSymbol(tokenInfo) THEN <<"Token lacks basic information">> ELSE << >>
      f4 == IF HasTimestamp(contractInfo) /\ ageInDays(contractInfo) < 30
            THEN <<"Contract is very new">> ELSE << >>
      f5 == IF m.topHolderPercentage > 5000 THEN <<"Extreme concentration">>
            ELSE IF m.topHolderPercentage > 2000 THEN <<"High concentration">>
            ELSE << >>
      f6 == IF m.top10Percentage > 8000 THEN <<"Top 10 holders">> ELSE << >>
      f7 == PatternFactors(patterns)
      f8 == IF largeRecent > 5 THEN <<"Unusual number of large transactions">> ELSE << >>
  IN f1 \o f2 \o f3 \o f4 \o f5 \o f6 \o f7 \o f8

\* the run function of the assessBlockchainRisk capability
assessBlockchainRisk(v, c, t, h, x) ==
  LET isVerified == isContractVerified(v)
      contractInfo == getContractInfo(c)
      tokenInfo == getTokenInfo(t)
      holderDistribution == getTokenHolders(h)
      transactionHistory == getTransactionHistory(x)
      securityAnalysis == IF isVerified /\ HasSourceCode(contractInfo)
                          THEN analyzeContractCode(contractInfo.found) ELSE << >>
      riskScore == calculateBlockchainRiskScore(isVerified, contractInfo, tokenInfo,
                                                holderDistribution, securityAnalysis)
  IN [kind |-> "data",
      riskScore |-> riskScore,
      riskLevel |-> blockchainRiskLevel(riskScore),
      riskFactors |-> identifyRiskFactors(isVerified, contractInfo, tokenInfo,
                                          holderDistribution, transactionHistory,
                                          securityAnalysis),
      isVerified |-> isVerified,
      holderConcentration |-> calculateConcentrationMetrics(holderDistribution)]

\* the found flags the capability leaves on the shared pattern objects
patternFoundAfter(v, c) ==
  IF isContractVerified(v) /\ HasSourceCode(getContractInfo(c))
  THEN foundAfterAnalysis(patternFound, getContractInfo(c).found)
  ELSE patternFound

\* what the chain-data providers can answer
ProviderInputs ==
  [verification : {Failed, [kind |-> "ok", verified |-> FALSE],
                   [kind |-> "ok", verified |-> TRUE]},
   contractInfo : {Failed} \cup
     [kind : {"ok"}, implementation : BOOLEAN, hasTimestamp : {TRUE},
      createdTimestamp : {StartDay - 3, StartDay - 20, StartDay - 45, StartDay - 400},
      hasSourceCode : {TRUE},
      found : {{}, {"Hidden minting", "Owner privileges"}}] \cup
     {[kind |-> "ok", implementation |-> FALSE, hasTimestamp |-> FALSE,
       createdTimestamp |-> 0, hasSourceCode |-> FALSE, found |-> {}]},
   tokenInfo : {Failed, [kind |-> "ok", named |-> FALSE], [kind |-> "ok", named |-> TRUE]},
   holders : {Failed, [kind |-> "ok", percentages |-> << >>],
              [kind |-> "ok", percentages |-> <<900, 800, 700>>],
              [kind |-> "ok", percentages |-> <<1000, 6000, 3000>>],
              [kind |-> "ok", percentages |-> <<1500, 1400, 1300, 1200, 1100, 1000>>]},
   transactions : {Failed, [kind |-> "ok", largeRecent |-> 0],
                   [kind |-> "ok", largeRecent |-> 6]}]

(***************************************************************************)
(* SocialMediaAgent: calculateTwitterRiskAssessment and the                *)
(* assessTwitterRisk capability.  A tweet's sentimentScore is carried in   *)
(* hundredths; an average is the pair of the total and the item count.     *)
(***************************************************************************)
\* no official account found
Undefined == [kind |-> "undefined"]

RECURSIVE SumScores(_)
SumScores(items) ==
  IF Len(items) = 0 THEN 0 ELSE items[1].sentimentScore + SumScores(Tail(items))

RECURSIVE SumEngagement(_)
SumEngagement(items) ==
  IF Len(items) = 0 THEN 0 ELSE items[1].engagement + SumEngagement(Tail(items))

\* tweetSentiments.filter(t => t.sentiment === label).length
CountSentiment(items, label) ==
  Cardinality({i \in 1..Len(items) : items[i].sentiment = label})

\* positive above 0.1, negative below -0.1: two independent ifs
overallSentimentOf(total, n) ==
  LET l0 == "neutral"
      l1 == IF total > 10 * n THEN "positive" ELSE l0
      l2 == IF total < -10 * n THEN "negative" ELSE l1
  IN l2

\* the sentiment as a percentage, not inverted: ((1 + s) / 2) * 100
sentimentPercent(total, n) == MathRound(100 * n + total, 2 * n)

\* Math.round(((1 - overallSentimentScore) / 2) * 100) for the average
\* total / (100 * n)
twitterRiskScore(total, n) == MathRound(100 * n - total, 2 * n)

calculateTwitterRiskAssessment(tweetSentiments, userInfo) ==
  IF Len(tweetSentiments) = 0
  THEN [kind |-> "data",
        overallSentiment |-> "neutral",
        overallSentimentScore |-> [total |-> 0, count |-> 1],
        riskScore |-> 50,
        riskLevel |-> "Medium",
        redFlags |-> <<"No recent Twitter activity found">>,
        positiveIndicators |-> << >>,
        tweetCount |-> 0,
        sentimentBreakdown |-> [positive |-> 0, neutral |-> 100, negative |-> 0]]
  ELSE
  LET n == Len(tweetSentiments)
      total == SumScores(tweetSentiments)
      riskScore == twitterRiskScore(total, n)
      positiveTweets == CountSentiment(tweetSentiments, "positive")
      negativeTweets == CountSentiment(tweetSentiments, "negative")
      neutralTweets == n - positiveTweets - negativeTweets
      sentimentBreakdown == [positive |-> MathRound(100 * positiveTweets, n),
                             neutral |-> MathRound(100 * neutralTweets, n),
                             negative |-> MathRound(100 * negativeTweets, n)]
      engagement == SumEngagement(tweetSentiments)
      hasUser == userInfo.kind = "user"
      f1 == IF sentimentBreakdown.negative > 50
            THEN <<"Majority negative sentiment on Twitter">> ELSE << >>
      f2 == IF n < 10 THEN <<"Very low Twitter discussion volume">> ELSE << >>
      f3 == IF engagement < n
            THEN <<"Low engagement with tweets about this project">> ELSE << >>
      f4 == IF hasUser /\ ~userInfo.verified
            THEN <<"Official Twitter account is not verified">> ELSE << >>
      f5 == IF hasUser /\ userInfo.followers_count < 1000
            THEN <<"Official account has very few followers">> ELSE << >>
      g1 == IF sentimentBreakdown.positive > 60
            THEN <<"Strong positive sentiment on Twitter">> ELSE << >>
      g2 == IF n > 50 THEN <<"High volume of Twitter discussion">> ELSE << >>
      g3 == IF engagement > 10 * n
            THEN <<"High engagement with tweets about this project">> ELSE << >>
      g4 == IF hasUser /\ userInfo.verified
            THEN <<"Project has a verified official Twitter account">> ELSE << >>
      g5 == IF hasUser /\ userInfo.followers_count > 100000
            THEN <<"Official account has a large follower base">> ELSE << >>
  IN [kind |-> "data",
      overallSentiment |-> overallSentimentOf(total, n),
      overallSentimentScore |-> [total |-> total, count |-> n],
      riskScore |-> riskScore,
      riskLevel |-> socialRiskLevel(riskScore),
      redFlags |-> f1 \o f2 \o f3 \o f4 \o f5,
      positiveIndicators |-> g1 \o g2 \o g3 \o g4 \o g5,
      tweetCount |-> n,
      sentimentBreakdown |-> sentimentBreakdown]

\* searchTweets: [] on any failure
searchTweets(search, tweetSentiments) ==
  IF search = Failed THEN << >> ELSE tweetSentiments

\* the capability without the check for an empty search result
assessTwitterRiskUnchecked(search, tweetSentiments, userInfo) ==
  calculateTwitterRiskAssessment(searchTweets(search, tweetSentiments), userInfo)

\* the run function of the assessTwitterRisk capability; tweetSentiments is
\* what the sentiment analysis makes of the tweets the search returns
assessTwitterRisk(search, tweetSentiments, userInfo) ==
  LET relatedTweets == searchTweets(search, tweetSentiments)
  IN IF Len(relatedTweets) = 0
     THEN ErrorJson("No tweets found")
     ELSE calculateTwitterRiskAssessment(relatedTweets, userInfo)

\* the analysed tweets handed to the scorer: the label and the score come
\* from the language model and are not tied to each other, and the score is
\* not confined to [-1, 1]
TweetItems ==
  [sentiment : {"positive", "neutral", "negative"},
   sentimentScore : {-150, -100, -20, 0, 60, 100, 150},
   engagement : {0, 12}]

RECURSIVE SeqsUpTo(_, _)
SeqsUpTo(S, n) ==
  IF n = 0 THEN {<< >>}
  ELSE LET shorter == SeqsUpTo(S, n - 1)
       IN shorter \cup {Append(s, x) : s \in {q \in shorter : Len(q) = n - 1}, x \in S}

UserInfos ==
  {Undefined,
   [kind |-> "user", verified |-> FALSE, followers_count |-> 500],
   [kind |-> "user", verified |-> TRUE, followers_count |-> 200000]}

SocialInputs ==
  [search : {Failed, [kind |-> "ok"]},
   tweetSentiments : SeqsUpTo(TweetItems, MaxTweets),
   userInfo : UserInfos]

(***************************************************************************)
(* MarketAnalysisAgent: calculatePriceVolatility and                       *)
(* calculateMarketRiskAssessment.                                          *)
(*                                                                         *)
(* Prices are integers that all divide ReturnDenominator, so a daily       *)
(* return (p[i] - p[i-1]) / p[i-1] is the integer DailyReturn over         *)
(* ReturnDenominator.  For n returns R with sum S the mean is              *)
(* S / (n * ReturnDenominator) and the variance                            *)
(*   sum (R[i]/D - S/(n*D))^2 / n  =  sum (n*R[i] - S)^2 / (n^3 * D^2).    *)
(* The volatility Math.sqrt(variance) is carried as that variance, the     *)
(* pair of sumSq = sum (n*R[i] - S)^2 and n; it is compared with a         *)
(* threshold by comparing the squares.                                     *)
(***************************************************************************)
Prices == {100, 102, 150}
ReturnDenominator == 5100

\* (prices[i] - prices[i-1]) / prices[i-1], in units of 1 / ReturnDenominator
DailyReturn(prices, i) ==
  ((prices[i] - prices[i - 1]) * ReturnDenominator) \div prices[i - 1]

\* returns.push(...) for i = 1 .. prices.length - 1 (zero based)
ReturnsOf(prices) == [i \in 1..(Len(prices) - 1) |-> DailyReturn(prices, i + 1)]

RECURSIVE SumSquaredDeviations(_, _, _)
SumSquaredDeviations(returns, n, sum) ==
  IF Len(returns) = 0 THEN 0
  ELSE (n * returns[1] - sum) * (n * returns[1] - sum)
       + SumSquaredDeviations(Tail(returns), n, sum)

RECURSIVE SumSquares(_, _)
SumSquares(returns, n) ==
  IF Len(returns) = 0 THEN 0
  ELSE (n * returns[1]) * (n * returns[1]) + SumSquares(Tail(returns), n)

\* the variance taken about zero instead of about the mean
varianceAboutZero(returns, n, sum) == SumSquares(returns, n)

\* returns.reduce((sum, value) => sum + Math.pow(value - mean, 2), 0) / returns.length
varianceOf(returns, n, sum) == SumSquaredDeviations(returns, n, sum)

NoVolatility == [sumSq |-> 0, n |-> 1]

calculatePriceVolatility(prices) ==
  IF Len(prices) < 2 THEN NoVolatility
  ELSE LET returns == ReturnsOf(prices)
           n == Len(returns)
           sum == SumSeq(returns)
       IN [sumSq |-> varianceOf(returns, n, sum), n |-> n]

\* (ReturnDenominator / 100)^2: the variance v.sumSq / (v.n^3 * D^2) is
\* v.sumSq / (v.n^3 * VarianceUnit) ten-thousandths
VarianceUnit == (ReturnDenominator \div 100) * (ReturnDenominator \div 100)

\* volatilityScore > p / 100 and volatilityScore < p / 100
VolatilityAbove(v, p) == v.sumSq > p * p * v.n * v.n * v.n * VarianceUnit
VolatilityBelow(v, p) == v.sumSq < p * p * v.n * v.n * v.n * VarianceUnit

\* market_cap is in millions of dollars, total_volume in ten thousands of
\* dollars, so volumeToMarketCapRatio = total_volume / (100 * market_cap);
\* the comparisons are cross-multiplied (market_cap >= 0)
RatioAbove(coinData, percent) == coinData.total_volume > percent * coinData.market_cap
RatioBelow(coinData, percent) == coinData.total_volume < percent * coinData.market_cap

\* a score without the ATH distance factor
noAthDistanceFactor(coinData) == 0

\* ATH distance factor
athDistanceFactor(coinData) ==
  IF coinData.ath_change_percentage > -20 THEN -5
  ELSE IF coinData.ath_change_percentage < -80 THEN 5
  ELSE 0

calculateMarketRiskAssessment(coinData, priceHistory) ==
  LET volatilityScore ==
        IF Truthy(priceHistory) /\ Len(priceHistory.prices) > 1
        THEN calculatePriceVolatility(priceHistory.prices)
        ELSE NoVolatility
      f1 == IF coinData.market_cap < 5
            THEN <<"Very low market capitalization (<$5M) indicates higher risk">>
            ELSE << >>
      f2 == IF RatioBelow(coinData, 2)
            THEN <<"Low trading volume relative to market cap may cause price slippage">>
            ELSE << >>
      f3 == IF VolatilityAbove(volatilityScore, 10)
            THEN <<"Extremely high price volatility">> ELSE << >>
      f4 == IF coinData.market_cap_rank > 1000
            THEN <<"Very low market cap ranking">> ELSE << >>
      f5 == IF coinData.ath_change_percentage < -90
            THEN <<"Price is down over 90% from all-time high">> ELSE << >>
      g1 == IF coinData.market_cap > 1000
            THEN <<"Large market capitalization (>$1B) suggests established project">>
            ELSE << >>
      g2 == IF coinData.market_cap_rank <= 50
            THEN <<"Top 50 cryptocurrency by market cap">> ELSE << >>
      g3 == IF RatioAbove(coinData, 15)
            THEN <<"High trading volume indicates strong market interest">>
            ELSE << >>
      g4 == IF VolatilityBelow(volatilityScore, 2)
            THEN <<"Low price volatility suggests price stability">> ELSE << >>
      s0 == 50
      s1 == s0 + (IF coinData.market_cap > 10000 THEN -15
                  ELSE IF coinData.market_cap > 1000 THEN -10
                  ELSE IF coinData.market_cap < 10 THEN 15
                  ELSE IF coinData.market_cap < 100 THEN 5
                  ELSE 0)
      s2 == s1 + (IF coinData.market_cap_rank <= 10 THEN -15
                  ELSE IF coinData.market_cap_rank <= 50 THEN -10
                  ELSE IF coinData.market_cap_rank <= 100 THEN -5
                  ELSE IF coinData.market_cap_rank > 500 THEN 10
                  ELSE IF coinData.market_cap_rank > 1000 THEN 15
                  ELSE 0)
      s3 == s2 + (IF RatioAbove(coinData, 20) THEN -10
                  ELSE IF RatioAbove(coinData, 10) THEN -5
                  ELSE IF RatioBelow(coinData, 2) THEN 15
                  ELSE IF RatioBelow(coinData, 5) THEN 5
                  ELSE 0)
      s4 == s3 + (IF VolatilityAbove(volatilityScore, 10) THEN 15
                  ELSE IF VolatilityAbove(volatilityScore, 5) THEN 5
                  ELSE IF VolatilityBelow(volatilityScore, 2) THEN -5
                  ELSE 0)
      s5 == s4 + athDistanceFactor(coinData)
      riskScore == Max(0, Min(100, s5))
  IN [kind |-> "data",
      riskScore |-> riskScore,
      riskLevel |-> marketRiskLevel(riskScore),
      redFlags |-> f1 \o f2 \o f3 \o f4 \o f5,
      positiveIndicators |-> g1 \o g2 \o g3 \o g4,
      volatility |-> volatilityScore,
      volatilityLevel |-> IF Truthy(priceHistory) /\ Len(priceHistory.prices) > 1
                          THEN IF VolatilityBelow(volatilityScore, 3) THEN "Low"
                               ELSE IF VolatilityAbove(volatilityScore, 8) THEN "High"
                               ELSE "Medium"
                          ELSE "Medium"]

\* market capitalisations in millions of dollars, from $3M to $2T
MarketCaps == {3, 8, 50, 500, 5000, 2000000}
\* total_volume as a percentage of the market capitalisation
VolumePercents == {1, 3, 8, 12, 25}

CoinDataInputs ==
  {[market_cap |-> cap,
    total_volume |-> percent * cap,
    market_cap_rank |-> rank,
    ath_change_percentage |-> ath] :
     cap \in MarketCaps, percent \in VolumePercents,
     rank \in {1, 30, 80, 300, 700, 1500}, ath \in {-95, -85, -50, -10}}

PriceHistories ==
  {Null} \cup {[kind |-> "data", prices |-> s] : s \in SeqsUpTo(Prices, MaxPrices)}

(***************************************************************************)
(* DexScreenerAgent: calculateDexRiskAssessment.  Amounts are whole        *)
(* dollars; a ratio is the pair of its numerator and its denominator.      *)
(***************************************************************************)
\* the ratio read as 1 whenever there are no sells
ratioOneWithoutSells(totalBuys, totalSells) ==
  IF totalSells > 0 THEN [num |-> totalBuys, den |-> totalSells]
  ELSE [num |-> 1, den |-> 1]

\* totalSells > 0 ? totalBuys / totalSells : totalBuys > 0 ? 2 : 1
buyToSellRatioOf(totalBuys, totalSells) ==
  IF totalSells > 0 THEN [num |-> totalBuys, den |-> totalSells]
  ELSE IF totalBuys > 0 THEN [num |-> 2, den |-> 1]
  ELSE [num |-> 1, den |-> 1]

\* the liquidity of the first pair alone
liquidityOfFirstPair(pairs) ==
  IF Len(pairs) = 0 THEN 0 ELSE pairs[1].liquidity

RECURSIVE SumLiquidity(_)
SumLiquidity(pairs) ==
  IF Len(pairs) = 0 THEN 0 ELSE pairs[1].liquidity + SumLiquidity(Tail(pairs))

RECURSIVE SumVolume(_)
SumVolume(pairs) ==
  IF Len(pairs) = 0 THEN 0 ELSE pairs[1].volume + SumVolume(Tail(pairs))

calculateDexRiskAssessment(primaryPair, allPairs) ==
  LET totalLiquidity == SumLiquidity(allPairs)
      totalVolume24h == SumVolume(allPairs)
      totalBuys == primaryPair.buys
      totalSells == primaryPair.sells
      buyToSellRatio == buyToSellRatioOf(totalBuys, totalSells)
      priceChange24h == primaryPair.priceChange
      liquidityScore ==
        IF totalLiquidity < 10000 THEN 90
        ELSE IF totalLiquidity < 50000 THEN 70
        ELSE IF totalLiquidity < 100000 THEN 60
        ELSE IF totalLiquidity < 500000 THEN 50
        ELSE IF totalLiquidity < 1000000 THEN 30
        ELSE 10
      liquidityLevel ==
        IF totalLiquidity < 100000 THEN "Low"
        ELSE IF totalLiquidity < 1000000 THEN "Medium"
        ELSE "High"
      f1 == IF totalLiquidity < 10000 THEN <<"Extremely low liquidity (<$10K)">>
            ELSE IF totalLiquidity < 50000 THEN <<"Very low liquidity (<$50K)">>
            ELSE IF totalLiquidity < 100000 THEN <<"Low liquidity (<$100K)">>
            ELSE IF totalLiquidity < 500000 THEN <<"Moderate liquidity (<$500K)">>
            ELSE << >>
      g1 == IF totalLiquidity >= 1000000 THEN <<"Strong liquidity">> ELSE << >>
      f2 == IF totalVolume24h < 1000 THEN <<"Extremely low trading volume (<$1K)">>
            ELSE IF totalVolume24h < 10000 THEN <<"Very low trading volume (<$10K)">>
            ELSE << >>
      g2 == IF totalVolume24h >= 10000 /\ totalVolume24h > 1000000
            THEN <<"High trading volume">> ELSE << >>
      \* volumeToLiquidityRatio = totalLiquidity > 0 ? volume / liquidity : 0
      ratioLow == IF totalLiquidity > 0 THEN 20 * totalVolume24h < totalLiquidity
                  ELSE TRUE
      ratioHigh == IF totalLiquidity > 0 THEN totalVolume24h > totalLiquidity
                   ELSE FALSE
      f3 == IF ratioLow THEN <<"Very low volume-to-liquidity ratio">> ELSE << >>
      g3 == IF ~ratioLow /\ ratioHigh THEN <<"Healthy volume-to-liquidity ratio">>
            ELSE << >>
      moreSells == 2 * buyToSellRatio.num < buyToSellRatio.den
      moreBuys == buyToSellRatio.num > 2 * buyToSellRatio.den
      f4 == IF moreSells
            THEN <<"Significantly more sells than buys in the last 24 hours">>
            ELSE << >>
      g4 == IF ~moreSells /\ moreBuys
            THEN <<"More buys than sells in the last 24 hours">> ELSE << >>
      f5 == IF priceChange24h < -20 THEN <<"Sharp price decrease">>
            ELSE IF priceChange24h > 50 THEN <<"Suspicious price increase">>
            ELSE << >>
      g5 == IF priceChange24h >= -20 /\ priceChange24h <= 50
               /\ priceChange24h > 10 /\ priceChange24h < 50
            THEN <<"Positive price movement">> ELSE << >>
      uniqueDexes == Cardinality({allPairs[i].dexId : i \in 1..Len(allPairs)})
      g6 == IF uniqueDexes > 3 THEN <<"Listed on several DEXes">> ELSE << >>
      s0 == 50
      s1 == s0 + liquidityScore
      s2 == s1 + (IF totalVolume24h < 1000 THEN 20
                  ELSE IF totalVolume24h < 10000 THEN 10
                  ELSE IF totalVolume24h > 1000000 THEN -10
                  ELSE 0)
      s3 == s2 + (IF moreSells THEN 15 ELSE IF moreBuys THEN -10 ELSE 0)
      s4 == s3 + (IF priceChange24h < -20 THEN 10
                  ELSE IF priceChange24h > 50 THEN 15
                  ELSE 0)
      s5 == s4 + (IF uniqueDexes > 3 THEN -10 ELSE 0)
      riskScore == Max(0, Min(100, s5))
  IN [kind |-> "data",
      liquidity |-> totalLiquidity,
      volume24h |-> totalVolume24h,
      buyToSellRatio |-> buyToSellRatio,
      priceChange24h |-> priceChange24h,
      riskScore |-> riskScore,
      riskLevel |-> dexRiskLevel(riskScore),
      liquidityScore |-> liquidityScore,
      liquidityLevel |-> liquidityLevel,
      redFlags |-> f1 \o f2 \o f3 \o f4 \o f5,
      positiveIndicators |-> g1 \o g2 \o g3 \o g4 \o g5 \o g6]

\* the pair with the most liquidity: missing txns or priceChange read as 0
PrimaryPairs ==
  {[liquidity |-> liquidity, volume |-> volume, buys |-> txns[1],
    sells |-> txns[2], priceChange |-> priceChange, dexId |-> 1] :
     liquidity \in {5000, 30000, 80000, 300000, 700000, 2000000},
     volume \in {500, 5000, 100000, 3000000},
     txns \in {<<0, 0>>, <<5, 0>>, <<100, 10>>, <<10, 100>>, <<10, 10>>, <<1, 3>>},
     priceChange \in {-30, 0, 20, 60}}

\* a smaller pair of the same token
OtherPair(dexId) ==
  [liquidity |-> 1000, volume |-> 200, buys |-> 1, sells |-> 1,
   priceChange |-> 0, dexId |-> dexId]

\* the pairs sorted by liquidity, largest first: the primary pair and up to
\* MaxPairs - 1 others, all on the same DEX or each on one of its own
PairLists ==
  {<<primaryPair>> \o [i \in 1..k |-> OtherPair(IF spread THEN i + 1 ELSE 1)] :
     primaryPair \in PrimaryPairs, k \in 0..(MaxPairs - 1), spread \in BOOLEAN}

(***************************************************************************)
(* The provider fetches: getTokenPairs, searchTweets and getTokenHolders   *)
(* down to their HTTP call.  The provider is a script of answers, one per  *)
(* axios.get in the order the calls are made; a fetch reports how it       *)
(* completes and how many answers of the script it used.                   *)
(***************************************************************************)
HttpRejects == [kind |-> "rejected", hasData |-> FALSE, data |-> << >>]

\* response.data without the field the fetch looks for
HttpWithoutData == [kind |-> "response", hasData |-> FALSE, data |-> << >>]

HttpWithData(d) == [kind |-> "response", hasData |-> TRUE, data |-> d]

\* how a block of code completes
Returned(v) == [threw |-> FALSE, value |-> v]
Threw == [threw |-> TRUE, value |-> << >>]

\* await axios.get(...): the k-th answer of the script
axiosGet(script, k) ==
  IF script[k].kind = "rejected" THEN Threw ELSE Returned(script[k])

\* a catch block that lets the error go on
catchAndRethrow(completion, fallback) == completion

\* try { ... } catch (error) { console.error(...); return fallback; }
catchAndReturn(completion, fallback) ==
  IF completion.threw THEN Returned(fallback) ELSE completion

\* if (response.data && response.data.<field>) return it; return [];
dataOrEmpty(response) ==
  IF response.threw THEN Threw
  ELSE IF response.value.hasData THEN Returned(response.value.data)
  ELSE Returned(<< >>)

\* DexScreenerAgent.getTokenPairs
getTokenPairs(script) ==
  [completion |-> catchAndReturn(dataOrEmpty(axiosGet(script, 1)), << >>),
   httpCalls |-> 1]

\* SocialMediaAgent.searchTweets, down to the HTTP call
searchTweetsRequest(script) ==
  [completion |-> catchAndReturn(dataOrEmpty(axiosGet(script, 1)), << >>),
   httpCalls |-> 1]

\* BlockchainAgent.getTokenHolders, down to the HTTP call: the mock list
\* without an API key, on an unexpected format and on an error
getTokenHoldersRequest(hasApiKey, script) ==
  IF ~hasApiKey
  THEN [completion |-> Returned(getMockTokenHolders), httpCalls |-> 0]
  ELSE LET response == axiosGet(script, 1)
           body == IF response.threw THEN Threw
                   ELSE IF response.value.hasData THEN Returned(response.value.data)
                   ELSE Returned(getMockTokenHolders)
       IN [completion |-> catchAndReturn(body, getMockTokenHolders),
           httpCalls |-> 1]

\* the answers a provider can give: two per script, the second one left
\* for a further call
HttpScripts(payloads) ==
  LET answers == {HttpRejects, HttpWithoutData} \cup {HttpWithData(d) : d \in payloads}
  IN [1..2 -> answers]

FetchInputs ==
  [fetch : {"getTokenPairs"}, hasApiKey : {TRUE},
   script : HttpScripts({<<1>>, <<1, 2>>})]
  \cup [fetch : {"searchTweets"}, hasApiKey : {TRUE},
        script : HttpScripts({<<1>>, <<1, 2, 3>>})]
  \cup [fetch : {"getTokenHolders"}, hasApiKey : BOOLEAN,
        script : HttpScripts({<< >>, <<900, 800, 700>>})]

(***************************************************************************)
(* The report of the SocialMediaAgent.                                     *)
(***************************************************************************)
\* tweets.slice(0, 20): at most 20 tweets are analysed
MaxAnalysed == 20

\* String.prototype.repeat throws a RangeError on a negative count
RepeatThrows(count) == count < 0

\* generateSentimentBar: the three segment lengths, and whether a repeat threw
generateSentimentBar(positive, neutral, negative) ==
  LET totalBars == 20
      positiveBars == MathRound(positive * totalBars, 100)
      neutralBars == MathRound(neutral * totalBars, 100)
      negativeBars == totalBars - positiveBars - neutralBars
  IN [positiveBars |-> positiveBars,
      neutralBars |-> neutralBars,
      negativeBars |-> negativeBars,
      threw |-> \/ RepeatThrows(positiveBars) \/ RepeatThrows(neutralBars)
                \/ RepeatThrows(negativeBars)]

\* formatTwitterAnalysisReport as far as the sentiment bar goes: the bar of
\* the breakdown, or the error the capability's catch block reports
formatTwitterAnalysisReport(twitterAssessment) ==
  LET sentimentBar == generateSentimentBar(twitterAssessment.sentimentBreakdown.positive,
                                           twitterAssessment.sentimentBreakdown.neutral,
                                           twitterAssessment.sentimentBreakdown.negative)
  IN [kind |-> IF sentimentBar.threw THEN "error" ELSE "report",
      sentimentBar |-> sentimentBar,
      sentimentBreakdown |-> twitterAssessment.sentimentBreakdown,
      tweetCount |-> twitterAssessment.tweetCount]

\* analysed tweets with the given numbers of labels
Labelled(label, count) ==
  [i \in 1..count |-> [sentiment |-> label, sentimentScore |-> 0, engagement |-> 0]]

ClassCounts ==
  {c \in [positive : 0..MaxAnalysed, neutral : 0..MaxAnalysed, negative : 0..MaxAnalysed] :
     c.positive + c.neutral + c.negative \in 1..MaxAnalysed}

(***************************************************************************)
(* The sentiment analysis of the SocialMediaAgent.                         *)
(***************************************************************************)
\* tweets found by the search, at most this many
MaxTweetsFound == 22

batchSize == 4

\* the batches tweets.slice(0, 20) is cut into
MaxBatches == (MaxAnalysed + batchSize - 1) \div batchSize

\* no result for the tweets of a failed batch
dropBatch(batch) == << >>

\* the catch block: a neutral sentiment for every tweet of the batch
neutralFallback(batch) ==
  [k \in 1..Len(batch) |->
     [tweet |-> batch[k], sentiment |-> "neutral", sentimentScore |-> 0]]

\* analyzeTweetBatch when the language model answered: one result per tweet
\* of the batch, in the order of the batch
analyzeTweetBatch(batch, answer) ==
  [k \in 1..Len(batch) |->
     [tweet |-> batch[k], sentiment |-> answer,
      sentimentScore |-> IF answer = "positive" THEN 60 ELSE -100]]

\* the loop of analyzeTweetSentimentsWithLLM from index i on; answers[b]
\* is what analyzeTweetBatch does for batch b: it throws or it answers
RECURSIVE analyzeFrom(_, _, _)
analyzeFrom(tweetsToAnalyze, i, answers) ==
  IF i >= Len(tweetsToAnalyze) THEN [results |-> << >>, attempts |-> 0]
  ELSE LET batch == SubSeq(tweetsToAnalyze, i + 1,
                           Min(i + batchSize, Len(tweetsToAnalyze)))
           answer == answers[(i \div batchSize) + 1]
           batchResults == IF answer = "throws" THEN neutralFallback(batch)
                           ELSE analyzeTweetBatch(batch, answer)
           rest == analyzeFrom(tweetsToAnalyze, i + batchSize, answers)
       IN [results |-> batchResults \o rest.results, attempts |-> 1 + rest.attempts]

analyzeTweetSentimentsWithLLM(tweets, answers) ==
  analyzeFrom(Slice(tweets, MaxAnalysed), 0, answers)

\* the tweets of a search, numbered in the order they were found
TweetsFound == {[i \in 1..n |-> i] : n \in 0..MaxTweetsFound}

BatchAnswers == [1..MaxBatches -> {"throws", "positive", "negative"}]

(***************************************************************************)
(* respondToChat of the coordinator, the four data agents and the          *)
(* reporting agent.                                                        *)
(***************************************************************************)
Agents == {"coordinator", "blockchain", "social", "market", "dexscreener", "reporting"}

\* every message counts as a user message
fromAnyone(latestMessage) == TRUE

\* latestMessage.author !== 'user' => return
fromUser(latestMessage) == latestMessage.author = "user"

Silent == [sent |-> << >>, started |-> "none"]

\* what respondToChat sends and starts before its first await: isRequest
\* is what the keyword tests make of the text, hasIdentifier whether a
\* project or token can be extracted from it
respondToChat(agent, latestMessage) ==
  IF ~fromUser(latestMessage) THEN Silent
  ELSE IF agent \in {"coordinator", "reporting"}
  THEN (IF ~latestMessage.isRequest THEN [sent |-> <<"default">>, started |-> "none"]
        ELSE IF ~latestMessage.hasIdentifier
        THEN [sent |-> <<"needProject">>, started |-> "none"]
        ELSE [sent |-> <<"ack">>,
              started |-> IF agent = "coordinator" THEN "workflow" ELSE "report"])
  ELSE (IF latestMessage.hasIdentifier
        THEN [sent |-> <<"ack">>, started |-> "analysis"]
        ELSE [sent |-> <<"default">>, started |-> "none"])

LatestMessages == [author : {"user", "agent"}, isRequest : BOOLEAN, hasIdentifier : BOOLEAN]

(***************************************************************************)
(* State.                                                                  *)
(***************************************************************************)
NoRequest == [author |-> "none", isAnalysisRequest |-> FALSE, identifier |-> "none"]

Init ==
  /\ pc = "idle"
  /\ request = NoRequest
  /\ outcome = [c \in CatSet |-> Pending]
  /\ data = [c \in CatSet |-> Null]
  /\ attempted = << >>
  /\ messages = << >>
  /\ assessment = Null
  /\ call = "none"
  /\ args = << >>
  /\ result = Null
  /\ again = Null
  /\ between = 0
  /\ now = StartDay
  /\ patternFound = {}

\* AnalysisAgent.respondToChat up to the first await of performRiskAnalysis
RespondToChat ==
  /\ pc \in {"idle", "done"}
  /\ call = "none"
  /\ \E author \in {"user", "agent"}, isRequest \in BOOLEAN,
        identifier \in {"none", "address", "name"} :
       /\ request' = [author |-> author, isAnalysisRequest |-> isRequest,
                      identifier |-> identifier]
       /\ outcome' = [c \in CatSet |-> Pending]
       /\ data' = [c \in CatSet |-> Null]
       /\ attempted' = << >>
       /\ assessment' = Null
       /\ IF author # "user"
          THEN messages' = << >> /\ pc' = "done"
          ELSE IF ~isRequest
          THEN messages' = <<"default">> /\ pc' = "done"
          ELSE IF identifier = "none"
          THEN messages' = <<"needProject">> /\ pc' = "done"
          ELSE messages' = <<"ack">> /\ pc' = "blockchain"
  /\ UNCHANGED <<call, args, result, again, between, now, patternFound>>

\* the catch block of performRiskAnalysis
Catch ==
  /\ messages' = Append(messages, "error")
  /\ pc' = "done"
  /\ UNCHANGED <<data, assessment>>

\* one await of performRiskAnalysis resolves
Fetched(c, response, d) ==
  /\ outcome' = [outcome EXCEPT ![c] = response]
  /\ attempted' = Append(attempted, c)
  /\ IF d = Thrown
     THEN Catch
     ELSE /\ data' = [data EXCEPT ![c] = d]
          /\ pc' = nextPc(c)
          /\ UNCHANGED <<messages, assessment>>
  /\ UNCHANGED <<request, call, args, result, again, between, now, patternFound>>

AwaitBlockchain ==
  /\ pc = "blockchain"
  /\ IF request.identifier = "address"
     THEN \E r \in Responses("blockchain") :
            Fetched("blockchain", r, getBlockchainRiskData(TRUE, r))
     ELSE Fetched("blockchain", NotCalled, getBlockchainRiskData(FALSE, NotCalled))

AwaitSocial ==
  /\ pc = "social"
  /\ \E r \in Responses("social") : Fetched("social", r, getSocialRiskData(r))

AwaitMarket ==
  /\ pc = "market"
  /\ \E r \in Responses("market") : Fetched("market", r, getMarketRiskData(r))

AwaitDex ==
  /\ pc = "dex"
  /\ \E r \in Responses("dex") : Fetched("dex", r, getDexRiskData(r))

\* the continuation after the fourth await
Join ==
  /\ pc = "join"
  /\ LET j == joinOutcome(data["blockchain"], data["social"], data["market"], data["dex"])
     IN /\ assessment' = j.assessment
        /\ messages' = messages \o j.replies
  /\ pc' = "done"
  /\ UNCHANGED <<request, outcome, data, attempted, call, args, result>>
  /\ UNCHANGED <<again, between, now, patternFound>>

\* a direct call of calculateComprehensiveRisk
CallCalculateComprehensiveRisk ==
  /\ pc = "idle" /\ call = "none"
  /\ \E in \in ScoreInputs \cup FactorInputs :
       /\ args' = in
       /\ result' = calculateComprehensiveRisk(in.blockchain, in.social, in.market, in.dex)
  /\ call' = "calculateComprehensiveRisk"
  /\ UNCHANGED <<pc, request, outcome, data, attempted, messages, assessment>>
  /\ UNCHANGED <<again, between, now, patternFound>>

CapabilityInputs ==
  [isAddress : BOOLEAN, blockchain : Responses("blockchain"), social : Responses("social"),
   market : Responses("market"), dex : Responses("dex")]

CallPerformRiskAssessment ==
  /\ pc = "idle" /\ call = "none"
  /\ \E in \in CapabilityInputs :
       /\ args' = in
       /\ result' = performRiskAssessment(in.isAddress, in.blockchain, in.social,
                                          in.market, in.dex)
  /\ call' = "performRiskAssessment"
  /\ UNCHANGED <<pc, request, outcome, data, attempted, messages, assessment>>
  /\ UNCHANGED <<again, between, now, patternFound>>

CallGetRiskBreakdown ==
  /\ pc = "idle" /\ call = "none"
  /\ \E in \in CapabilityInputs :
       /\ args' = in
       /\ result' = getRiskBreakdown(in.isAddress, in.blockchain, in.social,
                                     in.market, in.dex)
  /\ call' = "getRiskBreakdown"
  /\ UNCHANGED <<pc, request, outcome, data, attempted, messages, assessment>>
  /\ UNCHANGED <<again, between, now, patternFound>>

CallAssessBlockchainRisk ==
  /\ pc = "idle" /\ call = "none"
  /\ \E in \in ProviderInputs :
       /\ args' = in
       /\ result' = assessBlockchainRisk(in.verification, in.contractInfo, in.tokenInfo,
                                         in.holders, in.transactions)
       /\ patternFound' = patternFoundAfter(in.verification, in.contractInfo)
  /\ call' = "assessBlockchainRisk"
  /\ UNCHANGED <<pc, request, outcome, data, attempted, messages, assessment>>
  /\ UNCHANGED <<again, between, now>>

\* a direct call of calculateTwitterRiskAssessment
CallCalculateTwitterRiskAssessment ==
  /\ pc = "idle" /\ call = "none"
  /\ \E in \in SocialInputs :
       /\ in.search # Failed
       /\ args' = in
       /\ result' = calculateTwitterRiskAssessment(in.tweetSentiments, in.userInfo)
  /\ call' = "calculateTwitterRiskAssessment"
  /\ UNCHANGED <<pc, request, outcome, data, attempted, messages, assessment>>
  /\ UNCHANGED <<again, between, now, patternFound>>

CallAssessTwitterRisk ==
  /\ pc = "idle" /\ call = "none"
  /\ \E in \in SocialInputs :
       /\ args' = in
       /\ result' = assessTwitterRisk(in.search, in.tweetSentiments, in.userInfo)
  /\ call' = "assessTwitterRisk"
  /\ UNCHANGED <<pc, request, outcome, data, attempted, messages, assessment>>
  /\ UNCHANGED <<again, between, now, patternFound>>

\* a direct call of calculateMarketRiskAssessment
CallCalculateMarketRiskAssessment ==
  /\ pc = "idle" /\ call = "none"
  /\ \E coinData \in CoinDataInputs, priceHistory \in PriceHistories :
       /\ args' = [coinData |-> coinData, priceHistory |-> priceHistory]
       /\ result' = calculateMarketRiskAssessment(coinData, priceHistory)
  /\ call' = "calculateMarketRiskAssessment"
  /\ UNCHANGED <<pc, request, outcome, data, attempted, messages, assessment>>
  /\ UNCHANGED <<again, between, now, patternFound>>

\* a direct call of calculatePriceVolatility
CallCalculatePriceVolatility ==
  /\ pc = "idle" /\ call = "none"
  /\ \E prices \in SeqsUpTo(Prices, MaxPrices) :
       /\ args' = [prices |-> prices]
       /\ result' = calculatePriceVolatility(prices)
  /\ call' = "calculatePriceVolatility"
  /\ UNCHANGED <<pc, request, outcome, data, attempted, messages, assessment>>
  /\ UNCHANGED <<again, between, now, patternFound>>

\* a direct call of calculateDexRiskAssessment
CallCalculateDexRiskAssessment ==
  /\ pc = "idle" /\ call = "none"
  /\ \E allPairs \in PairLists :
       /\ args' = [primaryPair |-> allPairs[1], allPairs |-> allPairs]
       /\ result' = calculateDexRiskAssessment(allPairs[1], allPairs)
  /\ call' = "calculateDexRiskAssessment"
  /\ UNCHANGED <<pc, request, outcome, data, attempted, messages, assessment>>
  /\ UNCHANGED <<again, between, now, patternFound>>

\* the scorers and the aggregation, called directly
ScorerCalls ==
  {"assessBlockchainRisk", "calculateTwitterRiskAssessment",
   "calculateMarketRiskAssessment", "calculateDexRiskAssessment"}

\* the source codes another request has analysed: the patterns they match
MatchedSets == {{}, {"Fee manipulation"}, {"Hidden minting", "Owner privileges"}}

\* the value a call returns for the arguments a
Invoke(c, a) ==
  CASE c = "assessBlockchainRisk" ->
         assessBlockchainRisk(a.verification, a.contractInfo, a.tokenInfo,
                              a.holders, a.transactions)
    [] c = "calculateTwitterRiskAssessment" ->
         calculateTwitterRiskAssessment(a.tweetSentiments, a.userInfo)
    [] c = "calculateMarketRiskAssessment" ->
         calculateMarketRiskAssessment(a.coinData, a.priceHistory)
    [] c = "calculateDexRiskAssessment" ->
         calculateDexRiskAssessment(a.primaryPair, a.allPairs)
    [] c = "calculateComprehensiveRisk" ->
         calculateComprehensiveRisk(a.blockchain, a.social, a.market, a.dex)

\* time passes between a call that reads the clock and its repetition
Elapse ==
  /\ call \in {"assessBlockchainRisk", "calculateComprehensiveRisk"}
  /\ again = Null
  /\ now = StartDay
  /\ \E d \in 1..MaxElapsedDays : now' = now + d
  /\ UNCHANGED <<pc, request, outcome, data, attempted, messages, assessment>>
  /\ UNCHANGED <<call, args, result, again, between, patternFound>>

\* another request has the same BlockchainAgent analyse a source code
CallAnalyzeContractCode ==
  /\ call = "assessBlockchainRisk"
  /\ again = Null
  /\ between < MaxCallsBetween
  /\ \E matched \in MatchedSets :
       patternFound' = foundAfterAnalysis(patternFound, matched)
  /\ between' = between + 1
  /\ UNCHANGED <<pc, request, outcome, data, attempted, messages, assessment>>
  /\ UNCHANGED <<call, args, result, again, now>>

\* the same call is made again with the same arguments
Repeat ==
  /\ call \in ScorerCalls \cup {"calculateComprehensiveRisk"}
  /\ again = Null
  /\ again' = Invoke(call, args)
  /\ patternFound' = IF call = "assessBlockchainRisk"
                     THEN patternFoundAfter(args.verification, args.contractInfo)
                     ELSE patternFound
  /\ UNCHANGED <<pc, request, outcome, data, attempted, messages, assessment>>
  /\ UNCHANGED <<call, args, result, between, now>>

\* a direct call of getTokenPairs, searchTweets or getTokenHolders
CallFetch ==
  /\ pc = "idle" /\ call = "none"
  /\ \E in \in FetchInputs :
       /\ args' = in
       /\ result' = CASE in.fetch = "getTokenPairs" -> getTokenPairs(in.script)
                      [] in.fetch = "searchTweets" -> searchTweetsRequest(in.script)
                      [] in.fetch = "getTokenHolders" ->
                           getTokenHoldersRequest(in.hasApiKey, in.script)
       /\ call' = in.fetch
  /\ UNCHANGED <<pc, request, outcome, data, attempted, messages, assessment>>
  /\ UNCHANGED <<again, between, now, patternFound>>

\* the assessTwitterRisk capability assesses the analysed tweets and formats
\* the report of the assessment
CallFormatTwitterAnalysisReport ==
  /\ pc = "idle" /\ call = "none"
  /\ \E c \in ClassCounts :
       /\ args' = c
       /\ result' = formatTwitterAnalysisReport(
                      calculateTwitterRiskAssessment(
                        Labelled("positive", c.positive) \o Labelled("neutral", c.neutral)
                          \o Labelled("negative", c.negative),
                        Undefined))
  /\ call' = "formatTwitterAnalysisReport"
  /\ UNCHANGED <<pc, request, outcome, data, attempted, messages, assessment>>
  /\ UNCHANGED <<again, between, now, patternFound>>

\* a call of analyzeTweetSentimentsWithLLM
CallAnalyzeTweetSentimentsWithLLM ==
  /\ pc = "idle" /\ call = "none"
  /\ \E tweets \in TweetsFound, answers \in BatchAnswers :
       /\ args' = [tweets |-> tweets, answers |-> answers]
       /\ result' = analyzeTweetSentimentsWithLLM(tweets, answers)
  /\ call' = "analyzeTweetSentimentsWithLLM"
  /\ UNCHANGED <<pc, request, outcome, data, attempted, messages, assessment>>
  /\ UNCHANGED <<again, between, now, patternFound>>

\* a chat action arrives at one of the other agents
CallRespondToChat ==
  /\ pc = "idle" /\ call = "none"
  /\ \E agent \in Agents, latestMessage \in LatestMessages :
       /\ args' = [agent |-> agent, latestMessage |-> latestMessage]
       /\ result' = respondToChat(agent, latestMessage)
  /\ call' = "respondToChat"
  /\ UNCHANGED <<pc, request, outcome, data, attempted, messages, assessment>>
  /\ UNCHANGED <<again, between, now, patternFound>>

Next ==
  \/ RespondToChat
  \/ AwaitBlockchain
  \/ AwaitSocial
  \/ AwaitMarket
  \/ AwaitDex
  \/ Join
  \/ CallCalculateComprehensiveRisk
  \/ CallPerformRiskAssessment
  \/ CallGetRiskBreakdown
  \/ CallAssessBlockchainRisk
  \/ CallCalculateTwitterRiskAssessment
  \/ CallAssessTwitterRisk
  \/ CallCalculateMarketRiskAssessment
  \/ CallCalculatePriceVolatility
  \/ CallCalculateDexRiskAssessment
  \/ Elapse
  \/ CallAnalyzeContractCode
  \/ Repeat
  \/ CallFetch
  \/ CallFormatTwitterAnalysisReport
  \/ CallAnalyzeTweetSentimentsWithLLM
  \/ CallRespondToChat

Spec == Init /\ [][Next]_vars

\* every await settles: the promise resolves or rejects
FairSpec == Spec /\ WF_vars(AwaitBlockchain) /\ WF_vars(AwaitSocial)
            /\ WF_vars(AwaitMarket) /\ WF_vars(AwaitDex) /\ WF_vars(Join)

(***************************************************************************)
(* Properties.                                                             *)
(***************************************************************************)
\* a state that shows an aggregation: a direct call of
\* calculateComprehensiveRisk, or the one made for a chat request
Aggregated ==
  \/ call = "calculateComprehensiveRisk"
  \/ call = "none" /\ assessment # Null

\* its four inputs and its result
Signals == IF call = "calculateComprehensiveRisk" THEN args ELSE data
Assessment == IF call = "calculateComprehensiveRisk" THEN result ELSE assessment

PresentCats == {c \in CatSet : Signals[c].kind = "data"}

\* the score of a present signal, in half points: riskScore for chain and
\* market, dex_risk_score for DEX, (1 - (s + 1) / 2) * 100 for a sentiment s
SignalScore(c) ==
  CASE c = "blockchain" -> 2 * Signals[c].riskScore
    [] c = "social" -> 100 - Signals[c].sentimentScore
    [] c = "market" -> 2 * Signals[c].riskScore
    [] c = "dex" -> 2 * Signals[c].dex_risk_score

\* the category weights 0.35 / 0.2 / 0.25 / 0.2, in hundredths
CategoryWeight(c) ==
  CASE c = "blockchain" -> 35
    [] c = "social" -> 20
    [] c = "market" -> 25
    [] c = "dex" -> 20

RECURSIVE SumOfWeights(_)
SumOfWeights(S) ==
  IF S = {} THEN 0
  ELSE LET c == CHOOSE x \in S : TRUE
       IN CategoryWeight(c) + SumOfWeights(S \ {c})

RECURSIVE SumOfWeightedScores(_)
SumOfWeightedScores(S) ==
  IF S = {} THEN 0
  ELSE LET c == CHOOSE x \in S : TRUE
       IN CategoryWeight(c) * SignalScore(c) + SumOfWeightedScores(S \ {c})

\* the per-category detail entry of an assessment
DetailOf(a, c) ==
  CASE c = "blockchain" -> a.blockchainRisk
    [] c = "social" -> a.socialRisk
    [] c = "market" -> a.marketRisk
    [] c = "dex" -> a.dexRisk

C3_OverallInRange ==
  Aggregated =>
    /\ Assessment.kind = "assessment"
    /\ Assessment.overallRiskScore \in 0..100

\* both ends of the range are reached with categories absent
C3_Witness ==
  /\ call = "calculateComprehensiveRisk"
  /\ PresentCats = {"social", "dex"}
  /\ args.social.sentimentScore = -100
  /\ args.dex.dex_risk_score = 100
  /\ result.overallRiskScore = 100

\* a fetch that leaves its signal absent
ParsesToNothing(r) == r.kind \in {"null", "throws", "malformed", "notCalled"}

\* a chat request for an analysis of a named project
IsAnalysis == request.author = "user" /\ request.isAnalysisRequest /\ request.identifier # "none"

\* a chat request that has ended with every signal absent
EndedWithNoSignal ==
  /\ call = "none" /\ pc = "done" /\ IsAnalysis
  /\ \A c \in CatSet : ParsesToNothing(outcome[c])

\* a capability call with every signal absent
CapabilityWithNoSignal ==
  /\ call \in {"performRiskAssessment", "getRiskBreakdown"}
  /\ ~args.isAddress \/ ParsesToNothing(args.blockchain)
  /\ ParsesToNothing(args.social)
  /\ ParsesToNothing(args.market)
  /\ ParsesToNothing(args.dex)

\* C4 as written: with all four signals absent the request still yields an
\* assessment: score 50, level Medium, an empty breakdown and exactly one
\* risk factor
C4_NeutralAssessment ==
  EndedWithNoSignal =>
    /\ assessment.kind = "assessment"
    /\ assessment.overallRiskScore = 50
    /\ assessment.overallRiskLevel = "Medium"
    /\ Len(assessment.riskFactors) = 1

\* C4: with all four signals absent a chat request ends with the
\* insufficient-data notice and no assessment, and a capability call returns
\* the insufficient-data error object; calculateComprehensiveRisk called with
\* four absent signals gives score 50, level Medium, a breakdown of four
\* zeros and no factors at all
C4_InsufficientData ==
  /\ EndedWithNoSignal => (assessment = Null /\ messages = <<"ack", "insufficient">>)
  /\ CapabilityWithNoSignal => result = ErrorJson("Insufficient data available")
  /\ (call = "calculateComprehensiveRisk" /\ PresentCats = {}) =>
       /\ result.overallRiskScore = 50
       /\ result.overallRiskLevel = "Medium"
       /\ result.riskBreakdown = [blockchain |-> 0, social |-> 0, market |-> 0, dex |-> 0]
       /\ result.riskFactors = << >>
       /\ result.positiveFactors = << >>
       /\ \A c \in CatSet : DetailOf(result, c) = Null

\* the four fetches fail in four ways and the request ends with the notice
C4_Witness ==
  /\ pc = "done" /\ IsAnalysis
  /\ outcome["blockchain"] = NotCalled
  /\ outcome["social"] = Rejects
  /\ outcome["market"] = Unparseable
  /\ outcome["dex"] = ResolvesNull
  /\ messages = <<"ack", "insufficient">>

\* C5 as written: the breakdown has an entry for a category exactly when its
\* signal is present; an absent category is omitted, never reported as 0
C5_BreakdownOmitsAbsent ==
  Aggregated =>
    \A c \in CatSet :
      /\ c \in DOMAIN Assessment.riskBreakdown <=> c \in PresentCats
      /\ (c \notin PresentCats /\ c \in DOMAIN Assessment.riskBreakdown)
           => Assessment.riskBreakdown[c] # 0

\* C5: the breakdown always holds the four categories: a present category's
\* entry is its score, an absent category's entry is 0; the per-category
\* detail entry (blockchainRisk, socialRisk, marketRisk, dexRisk) exists
\* exactly when the signal is present.  getRiskBreakdown reports an absent
\* category as 0 too.
C5_BreakdownZeroForAbsent ==
  /\ Aggregated =>
       /\ DOMAIN Assessment.riskBreakdown = CatSet
       /\ \A c \in CatSet :
            /\ c \in PresentCats => Assessment.riskBreakdown[c] = SignalScore(c)
            /\ c \notin PresentCats => Assessment.riskBreakdown[c] = 0
            /\ DetailOf(Assessment, c) # Null <=> c \in PresentCats
  /\ (call = "getRiskBreakdown" /\ result.kind = "breakdown") =>
       /\ DOMAIN result.riskBreakdown = CatSet
       /\ ParsesToNothing(args.social) => result.riskBreakdown.social = 0
       /\ ParsesToNothing(args.market) => result.riskBreakdown.market = 0
       /\ ParsesToNothing(args.dex) => result.riskBreakdown.dex = 0
       /\ (~args.isAddress \/ ParsesToNothing(args.blockchain))
            => result.riskBreakdown.blockchain = 0

\* a present chain signal scoring 0 and an absent market signal show the
\* same breakdown entry
C5_Witness ==
  /\ call = "calculateComprehensiveRisk"
  /\ "blockchain" \in PresentCats /\ "market" \notin PresentCats
  /\ args.blockchain.riskScore = 0
  /\ result.riskBreakdown.blockchain = 0
  /\ result.riskBreakdown.market = 0
  /\ result.blockchainRisk # Null
  /\ result.marketRisk = Null

\* the thresholds of the specification: below 40 Low, 40 to 70 Medium,
\* above 70 High
LevelByThresholds(score) ==
  IF score < 40 THEN "Low" ELSE IF score <= 70 THEN "Medium" ELSE "High"

\* the score its own scorer reports for a present signal
ScorerScore(c) ==
  CASE c = "blockchain" -> Signals[c].riskScore
    [] c = "social" -> socialRiskScore(Signals[c].sentimentScore)
    [] c = "market" -> Signals[c].riskScore
    [] c = "dex" -> Signals[c].dex_risk_score

\* C6: every place that derives a level from a score (the chain, sentiment,
\* market and DEX scorers and the aggregator) uses the same thresholds:
\* below 40 Low, 40 to 70 Medium, above 70 High
C6_UniformThresholds ==
  /\ call = "calculateComprehensiveRisk" =>
       /\ result.overallRiskLevel = LevelByThresholds(result.overallRiskScore)
       /\ \A c \in PresentCats :
            DetailOf(result, c).level = LevelByThresholds(ScorerScore(c))
  /\ call = "assessBlockchainRisk" =>
       result.riskLevel = LevelByThresholds(result.riskScore)

TagIndex(tag) ==
  CASE tag = "Blockchain" -> 1
    [] tag = "Social" -> 2
    [] tag = "Market" -> 3
    [] tag = "DEX" -> 4

\* C8: the aggregation, and any reply after the acknowledgement, comes only
\* after each of the four branches has delivered a signal or failed; the
\* assessment is determined by the four signals alone (the awaits are
\* sequential, so the branches complete in one order only)
C8_JoinAfterAllBranches ==
  (call = "none" /\ IsAnalysis) =>
    /\ (pc = "join" \/ assessment # Null \/ Len(messages) > 1) =>
         /\ attempted = Cats
         /\ \A c \in CatSet : outcome[c] # Pending
    /\ pc \in CatSet => (assessment = Null /\ messages = <<"ack">>)
    /\ assessment # Null =>
         /\ assessment = calculateComprehensiveRisk(data["blockchain"], data["social"],
                                                    data["market"], data["dex"])
         /\ \A i, j \in 1..Len(assessment.riskFactors) :
              i < j => TagIndex(assessment.riskFactors[i][1])
                         <= TagIndex(assessment.riskFactors[j][1])

\* at the join with the last branch failed and the first one delivered
C8_Witness ==
  /\ call = "none" /\ pc = "join" /\ IsAnalysis
  /\ attempted = Cats
  /\ outcome["dex"] = Rejects
  /\ data["blockchain"].kind = "data"
  /\ messages = <<"ack">>

AnyProviderFailed ==
  /\ call = "assessBlockchainRisk"
  /\ Failed \in {args.verification, args.contractInfo, args.tokenInfo,
                 args.holders, args.transactions}

AllProvidersFailed ==
  /\ call = "assessBlockchainRisk"
  /\ {args.verification, args.contractInfo, args.tokenInfo,
      args.holders, args.transactions} = {Failed}

FinalReplies == {"report", "insufficient", "error"}

\* C10: every analysis request that names a project ends, after the
\* acknowledgement, with exactly one final reply (the report, the
\* insufficient-data notice or the error notice), whatever each branch does
C10_OneFinalReply ==
  /\ []((call = "none" /\ IsAnalysis) =>
          /\ pc \in CatSet \cup {"join"} => messages = <<"ack">>
          /\ pc = "done" => /\ Len(messages) = 2
                            /\ messages[1] = "ack"
                            /\ messages[2] \in FinalReplies)
  /\ (pc = "blockchain") ~>
       (pc = "done" /\ Len(messages) = 2 /\ messages[2] \in FinalReplies)

\* a branch delivers an object the aggregation cannot read: the request
\* ends with the error notice
C10_Witness ==
  /\ call = "none" /\ pc = "done" /\ IsAnalysis
  /\ outcome["social"] = Rejects
  /\ outcome["market"] = Json(Incomplete)
  /\ messages = <<"ack", "error">>

(***************************************************************************)
(* The scorers, called directly.                                           *)
(***************************************************************************)
\* the scorers that end with Math.min / Math.max keep their score in 0..100
ClampedScorersInRange ==
  call \in ScorerCalls \ {"calculateTwitterRiskAssessment"} =>
    result.riskScore \in 0..100

\* C11: every scorer (chain, sentiment, market, DEX) returns a score in
\* 0..100 for every input, numeric values outside the documented domain
\* included (a sentiment outside [-1, 1])
C11_EveryScoreInRange ==
  call \in ScorerCalls => result.riskScore \in 0..100

\* a sentiment scorer call whose average sentiment lies outside [-1, 1]
C11_SentimentOutOfDomain ==
  /\ call = "calculateTwitterRiskAssessment"
  /\ Len(args.tweetSentiments) > 0
  /\ Abs(SumScores(args.tweetSentiments)) > 100 * Len(args.tweetSentiments)

(***************************************************************************)
(* Calls repeated with the same arguments.                                 *)
(***************************************************************************)
\* the score, the level and the factors of the two calls are the same; of
\* an assessment only the analysisTime may differ
SameOutcome ==
  IF call = "calculateComprehensiveRisk" /\ result.kind = "assessment"
  THEN /\ again.kind = "assessment"
       /\ [again EXCEPT !.analysisTime = result.analysisTime] = result
  ELSE again = result

\* the tier of the chain scorer's age factor
AgeBand(age) ==
  IF age < 7 THEN 0 ELSE IF age < 30 THEN 1 ELSE IF age < 90 THEN 2 ELSE 3

\* both calls find the contract in the same age tier
SameAgeBand ==
  LET contractInfo == getContractInfo(args.contractInfo)
  IN HasTimestamp(contractInfo) =>
       AgeBand(StartDay - contractInfo.createdTimestamp)
         = AgeBand(now - contractInfo.createdTimestamp)

CategoryTag(c) ==
  CASE c = "blockchain" -> "Blockchain"
    [] c = "social" -> "Social"
    [] c = "market" -> "Market"
    [] c = "dex" -> "DEX"

\* 3 factors of the chain category, 2 of each other
CategoryCap(c) == IF c = "blockchain" THEN 3 ELSE 2

\* a present category's own lists, as its signal carries them
OwnRiskFactors(c) ==
  IF c = "dex" THEN Signals[c].red_flags ELSE Signals[c].riskFactors

OwnPositiveFactors(c) ==
  CASE c = "blockchain" -> << >>
    [] c = "dex" -> Signals[c].positive_indicators
    [] OTHER -> Signals[c].positiveFactors

\* the first factors of a list, up to the category's cap, each with the
\* category's tag; nothing for an absent category
Contribution(c, own) ==
  IF c \in PresentCats
  THEN [i \in 1..Min(CategoryCap(c), Len(own)) |-> <<CategoryTag(c), own[i]>>]
  ELSE << >>

UnverifiedAndNothingElse ==
  /\ call = "assessBlockchainRisk"
  /\ ~isContractVerified(args.verification)
  /\ ~HasImplementation(getContractInfo(args.contractInfo))
  /\ HasNameAndSymbol(getTokenInfo(args.tokenInfo))
  /\ HasTimestamp(getContractInfo(args.contractInfo))
  /\ StartDay - getContractInfo(args.contractInfo).createdTimestamp >= 90
  /\ getTokenHolders(args.holders) = << >>

\* C14: an unverified contract with an empty holder list, no findings and
\* no other penalty (no proxy, name and symbol present, 90 days old or
\* more) scores exactly 50; the empty holder list contributes 0 and no error
C14_UnverifiedAloneScores50 ==
  UnverifiedAndNothingElse =>
    /\ result.kind = "data"
    /\ result.riskScore = 50
    /\ result.holderConcentration.topHolderPercentage = 0
    /\ result.holderConcentration.top10Percentage = 0
    /\ again # Null => again.riskScore = 50

C14_Witness ==
  /\ UnverifiedAndNothingElse
  /\ args.verification.kind = "ok"
  /\ args.holders.kind = "ok"
  /\ result.riskScore = 50

(***************************************************************************)
(* The sentiment scorer.                                                   *)
(***************************************************************************)
\* a call of the sentiment scorer with at least one item; the average
\* sentiment is AverageTotal / (100 * AverageCount)
ScoredTweets ==
  /\ call = "calculateTwitterRiskAssessment"
  /\ Len(args.tweetSentiments) > 0

AverageTotal == SumScores(args.tweetSentiments)
AverageCount == Len(args.tweetSentiments)

AverageInDomain ==
  /\ AverageTotal >= -100 * AverageCount
  /\ AverageTotal <= 100 * AverageCount

\* C15: for an average sentiment s in [-1, 1] of at least one item the
\* score is round(((1 - s) / 2) * 100): within one half of
\* ((1 - s) / 2) * 100, 100 at -1, 50 at 0 and 0 at 1, never larger for a
\* larger s, and above 50 whenever the overall sentiment is negative
C15_LinearInversion ==
  (ScoredTweets /\ AverageInDomain) =>
    /\ Abs(2 * AverageCount * result.riskScore
           - (100 * AverageCount - AverageTotal)) <= AverageCount
    /\ AverageTotal = -100 * AverageCount => result.riskScore = 100
    /\ AverageTotal = 0 => result.riskScore = 50
    /\ AverageTotal = 100 * AverageCount => result.riskScore = 0
    /\ \A n \in 1..MaxTweets : \A j \in (-10 * n)..(10 * n) :
         10 * j * AverageCount > AverageTotal * n =>
           twitterRiskScore(10 * j, n) <= result.riskScore
    /\ result.overallSentiment = "negative" => result.riskScore > 50

\* two tweets with an average of -0.6: negative, score 80
C15_Witness ==
  /\ ScoredTweets
  /\ AverageCount = 2
  /\ AverageTotal = -120
  /\ result.overallSentiment = "negative"
  /\ result.riskScore = 80

\* the neutral default: 50, Medium and the one factor about missing activity
IsNeutralDefault(r) ==
  /\ r.kind = "data"
  /\ r.riskScore = 50
  /\ r.riskLevel = "Medium"
  /\ r.redFlags = <<"No recent Twitter activity found">>
  /\ r.positiveIndicators = << >>

\* a request to the assessTwitterRisk capability for which no tweet is found
RequestWithoutTweets ==
  /\ call = "assessTwitterRisk"
  /\ searchTweets(args.search, args.tweetSentiments) = << >>

LargeLiquidStableCoin ==
  /\ call = "calculateMarketRiskAssessment"
  /\ args.coinData.market_cap = 2000000
  /\ args.coinData.market_cap_rank = 1
  /\ 4 * args.coinData.total_volume = 100 * args.coinData.market_cap
  /\ result.volatility.sumSq > 0
  /\ ~VolatilityAbove(result.volatility, 1)
  /\ ~VolatilityBelow(result.volatility, 1)

\* C17 (as stated): such a record gets the market risk score 5, that is
\* 50 - 15 - 15 - 10 - 5
C17_ScoreIsFive ==
  LargeLiquidStableCoin => result.riskScore = 5

\* C17 (amended): such a record gets 5 when its price lies 20% to 80% below
\* the all-time high, 0 when it lies less than 20% below and 10 when it lies
\* more than 80% below
C17_ScoreIsFivePlusAthFactor ==
  LargeLiquidStableCoin =>
    result.riskScore =
      (IF args.coinData.ath_change_percentage > -20 THEN 0
       ELSE IF args.coinData.ath_change_percentage < -80 THEN 10
       ELSE 5)

C17_Witness ==
  /\ LargeLiquidStableCoin
  /\ args.priceHistory.prices = <<100, 102, 102>>
  /\ args.coinData.ath_change_percentage = -50
  /\ result.riskScore = 5

\* the price series of a volatility computation and the volatility found
VolatilityComputed ==
  \/ call = "calculatePriceVolatility"
  \/ call = "calculateMarketRiskAssessment" /\ args.priceHistory # Null

SeriesPrices ==
  IF call = "calculatePriceVolatility" THEN args.prices ELSE args.priceHistory.prices

SeriesVolatility ==
  IF call = "calculatePriceVolatility" THEN result ELSE result.volatility

\* the day-over-day return of day i, in units of 1 / ReturnDenominator
ReturnOfDay(i) ==
  ((SeriesPrices[i + 1] - SeriesPrices[i]) * ReturnDenominator) \div SeriesPrices[i]

RECURSIVE SumOfReturns(_)
SumOfReturns(i) == IF i = 0 THEN 0 ELSE ReturnOfDay(i) + SumOfReturns(i - 1)

RECURSIVE SumOfSquaredReturns(_)
SumOfSquaredReturns(i) ==
  IF i = 0 THEN 0 ELSE ReturnOfDay(i) * ReturnOfDay(i) + SumOfSquaredReturns(i - 1)

\* C18: the volatility of a price series is 0 when the series is empty or
\* has a single point; otherwise it is the population standard deviation of
\* the day-over-day returns (p[i] - p[i-1]) / p[i-1]: its square is the mean
\* of the squared returns minus the square of their mean,
\* (n * Q - S * S) / n^2 for n returns with sum S and sum of squares Q
C18_PopulationDeviationOfReturns ==
  VolatilityComputed =>
    LET n == Len(SeriesPrices) - 1
    IN IF n < 1
       THEN SeriesVolatility.sumSq = 0
       ELSE /\ \A i \in 1..n :
                 ((SeriesPrices[i + 1] - SeriesPrices[i]) * ReturnDenominator)
                   % SeriesPrices[i] = 0
            /\ SeriesVolatility.n = n
            /\ SeriesVolatility.sumSq =
                 n * (n * SumOfSquaredReturns(n) - SumOfReturns(n) * SumOfReturns(n))

\* a series of three prices whose two returns differ
C18_Witness ==
  /\ call = "calculatePriceVolatility"
  /\ args.prices = <<100, 102, 150>>
  /\ result.sumSq > 0

(***************************************************************************)
(* The DEX scorer.                                                         *)
(***************************************************************************)
DexScored == call = "calculateDexRiskAssessment"

\* the reported ratio equals the number k
RatioIs(k) == result.buyToSellRatio.num = k * result.buyToSellRatio.den

\* C19: the buy/sell ratio is buys / sells of the primary pair's 24h
\* transaction counts when sells > 0; with no sells it is 2 if there are
\* buys and 1 otherwise; 100 buys and 10 sells give 10
C19_BuyToSellRatio ==
  DexScored =>
    /\ result.buyToSellRatio.den > 0
    /\ args.primaryPair.sells > 0 =>
         result.buyToSellRatio.num * args.primaryPair.sells
           = args.primaryPair.buys * result.buyToSellRatio.den
    /\ (args.primaryPair.sells = 0 /\ args.primaryPair.buys > 0) => RatioIs(2)
    /\ (args.primaryPair.sells = 0 /\ args.primaryPair.buys = 0) => RatioIs(1)
    /\ (args.primaryPair.buys = 100 /\ args.primaryPair.sells = 10) => RatioIs(10)

\* buys without sells, on a token with several pairs
C19_Witness ==
  /\ DexScored
  /\ args.primaryPair.buys = 5
  /\ args.primaryPair.sells = 0
  /\ Len(args.allPairs) > 1
  /\ RatioIs(2)

\* buy/sell ratio of 10 or more, or of 0.1 or less
ExtremeImbalance ==
  \/ result.buyToSellRatio.num >= 10 * result.buyToSellRatio.den
  \/ 10 * result.buyToSellRatio.num <= result.buyToSellRatio.den

HasFactor(factors, text) == \E i \in DOMAIN factors : factors[i] = text

\* what the scorer does with the ratio: a red flag below 0.5, a positive
\* indicator above 2, nothing in between
ImbalanceAsScored ==
  DexScored =>
    /\ HasFactor(result.redFlags, "Significantly more sells than buys in the last 24 hours")
         <=> 2 * result.buyToSellRatio.num < result.buyToSellRatio.den
    /\ HasFactor(result.positiveIndicators, "More buys than sells in the last 24 hours")
         <=> result.buyToSellRatio.num > 2 * result.buyToSellRatio.den

\* C20: the assessment of a pair reports volumePerTx = volume / (buys +
\* sells), and an extreme buy/sell imbalance (ratio >= 10 or <= 0.1) is
\* flagged as a risk by the DEX scorer; 100 buys and 10 sells is such a pair
C20_ImbalanceFlaggedSuspicious ==
  DexScored =>
    /\ "volumePerTx" \in DOMAIN result
    /\ ExtremeImbalance =>
         /\ Len(result.redFlags) > 0
         /\ ~HasFactor(result.positiveIndicators,
                       "More buys than sells in the last 24 hours")

(***************************************************************************)
(* The provider fetches.                                                   *)
(***************************************************************************)
FetchCalls == {"getTokenPairs", "searchTweets", "getTokenHolders"}

\* the fetch made its HTTP call and the call rejected
HttpCallRejected ==
  /\ call \in FetchCalls
  /\ args.hasApiKey
  /\ args.script[1] = HttpRejects

\* C21: no provider fetch lets an exception escape or retries: when its
\* HTTP call rejects, the DEX pair fetch and the tweet search resolve to an
\* empty list and the holder fetch to a non-empty fallback list, each after
\* exactly one HTTP attempt
C21_FetchFailuresContained ==
  /\ call \in FetchCalls => ~result.completion.threw /\ result.httpCalls <= 1
  /\ HttpCallRejected =>
       /\ result.httpCalls = 1
       /\ call \in {"getTokenPairs", "searchTweets"} =>
            result.completion.value = << >>
       /\ call = "getTokenHolders" =>
            /\ Len(result.completion.value) > 0
            /\ result.completion.value = getMockTokenHolders

\* the holder call rejects although a second attempt would have succeeded
C21_Witness ==
  /\ HttpCallRejected
  /\ call = "getTokenHolders"
  /\ args.script[2] = HttpWithData(<<900, 800, 700>>)
  /\ result.completion.value = getMockTokenHolders

\* the chain scorer was called; its first call is made at StartDay
ChainScored == call = "assessBlockchainRisk" /\ result.kind = "data"

ChainContract == getContractInfo(args.contractInfo)

ChainAge == StartDay - ChainContract.createdTimestamp

ChainMetrics == calculateConcentrationMetrics(getTokenHolders(args.holders))

\* an age tier of the chain score applies: unknown age, or less than 90 days
AgeTierApplies == ~HasTimestamp(ChainContract) \/ ChainAge < 90

\* C22: every penalty source that adds to the chain score (unverified,
\* proxy, missing name or symbol, each age tier including unknown age, each
\* top-holder tier, each top-10 tier) also puts a negative factor string
\* in riskFactors: no penalty is applied without its factor
C22_EveryPenaltyHasFactor ==
  ChainScored =>
    /\ ~isContractVerified(args.verification)
         => HasFactor(result.riskFactors, "Contract source code is not verified")
    /\ HasImplementation(ChainContract)
         => HasFactor(result.riskFactors, "This is a proxy contract")
    /\ ~HasNameAndSymbol(getTokenInfo(args.tokenInfo))
         => HasFactor(result.riskFactors, "Token lacks basic information")
    /\ AgeTierApplies => HasFactor(result.riskFactors, "Contract is very new")
    /\ ChainMetrics.topHolderPercentage > 1000
         => \/ HasFactor(result.riskFactors, "Extreme concentration")
            \/ HasFactor(result.riskFactors, "High concentration")
    /\ ChainMetrics.top10Percentage > 7000
         => HasFactor(result.riskFactors, "Top 10 holders")

\* a verified, named contract without proxy, holders or findings that was
\* created d days ago: its chain score is its age penalty
Aged(d) ==
  [kind |-> "ok", implementation |-> FALSE, hasTimestamp |-> TRUE,
   createdTimestamp |-> now - d, hasSourceCode |-> FALSE, found |-> {}]

AgePenaltyOf(contractInfo) ==
  calculateBlockchainRiskScore(TRUE, contractInfo, [kind |-> "ok", named |-> TRUE],
                               << >>, << >>)

\* the age penalty of the contract that was assessed, at the present time
AgePenalty ==
  AgePenaltyOf(IF HasTimestamp(ChainContract)
               THEN Aged(now - ChainContract.createdTimestamp) ELSE EmptyObject)

\* the known age tiers descend: no older contract has a larger penalty,
\* under 90 days the penalty is positive, from 90 days on it is zero
KnownAgeTiersDescend ==
  HasTimestamp(ChainContract) =>
    LET age == now - ChainContract.createdTimestamp
    IN /\ \A d \in 0..MaxAgeDays : d >= age => AgePenaltyOf(Aged(d)) <= AgePenalty
       /\ age < 7 => AgePenalty > AgePenaltyOf(Aged(7))
       /\ age < 30 => AgePenalty > AgePenaltyOf(Aged(30))
       /\ age < 90 => AgePenalty > 0
       /\ age >= 90 => AgePenalty = 0

\* C23 (as stated): the age penalties descend in the order unknown age >=
\* younger than 7 days >= younger than 30 days >= younger than 90 days > 0,
\* a contract of 90 days or older adds nothing, and a missing creation
\* time is scored as the unknown tier, never as zero
C23_AgePenaltiesDescendFromUnknown ==
  ChainScored =>
    /\ KnownAgeTiersDescend
    /\ ~HasTimestamp(ChainContract) =>
         /\ AgePenalty > 0
         /\ \A d \in 0..MaxAgeDays : AgePenaltyOf(Aged(d)) <= AgePenalty

\* C23 (amended): the penalties of the known ages descend, younger than 7
\* days (20) > younger than 30 days (10) > younger than 90 days (5) > 0,
\* and 90 days or older adds nothing; a missing creation time is never
\* scored as zero: it adds 5, the penalty of the lowest tier (younger than
\* 90 days), which is below the penalties of the two youngest tiers
C23_AgePenaltiesDescendUnknownLowest ==
  ChainScored =>
    /\ KnownAgeTiersDescend
    /\ HasTimestamp(ChainContract) =>
         AgePenalty = (CASE AgeBand(now - ChainContract.createdTimestamp) = 0 -> 20
                         [] AgeBand(now - ChainContract.createdTimestamp) = 1 -> 10
                         [] AgeBand(now - ChainContract.createdTimestamp) = 2 -> 5
                         [] OTHER -> 0)
    /\ ~HasTimestamp(ChainContract) =>
         /\ AgePenalty = 5
         /\ AgePenalty = AgePenaltyOf(Aged(89))
         /\ AgePenalty < AgePenaltyOf(Aged(29))

\* a verified, named contract without creation time, holders or findings
\* was assessed and scored 5 with no risk factor
C23_Witness ==
  /\ ChainScored
  /\ ~HasTimestamp(ChainContract)
  /\ isContractVerified(args.verification)
  /\ HasNameAndSymbol(getTokenInfo(args.tokenInfo))
  /\ getTokenHolders(args.holders) = << >>
  /\ result.riskScore = 5
  /\ result.riskFactors = << >>

MarketScored == call = "calculateMarketRiskAssessment" /\ result.kind = "data"

\* the score of the same record with a rank without adjustment (101..500)
ScoreAtNeutralRank ==
  calculateMarketRiskAssessment([args.coinData EXCEPT !.market_cap_rank = 300],
                                args.priceHistory).riskScore

\* neither score was clamped at 0 or 100
RankAdjustmentVisible ==
  /\ result.riskScore > 0 /\ result.riskScore < 100
  /\ ScoreAtNeutralRank > 0 /\ ScoreAtNeutralRank < 100

\* C24: the rank adjustment of the market score is -15 for rank <= 10, -10
\* for rank <= 50, -5 for rank <= 100, +10 for rank above 500 and +15 for
\* rank above 1000: every rank above 1000 adds 15 to the score
C24_RankAdjustment ==
  (MarketScored /\ RankAdjustmentVisible) =>
    result.riskScore - ScoreAtNeutralRank =
      (CASE args.coinData.market_cap_rank <= 10 -> -15
         [] args.coinData.market_cap_rank \in 11..50 -> -10
         [] args.coinData.market_cap_rank \in 51..100 -> -5
         [] args.coinData.market_cap_rank > 1000 -> 15
         [] args.coinData.market_cap_rank \in 501..1000 -> 10
         [] OTHER -> 0)

\* the adjustment the code applies: every rank above 500 adds 10
RankAdjustmentAsScored ==
  (MarketScored /\ RankAdjustmentVisible) =>
    result.riskScore - ScoreAtNeutralRank =
      (CASE args.coinData.market_cap_rank <= 10 -> -15
         [] args.coinData.market_cap_rank \in 11..50 -> -10
         [] args.coinData.market_cap_rank \in 51..100 -> -5
         [] args.coinData.market_cap_rank > 500 -> 10
         [] OTHER -> 0)

\* the liquidity of the first i pairs of the call
RECURSIVE LiquidityUpTo(_)
LiquidityUpTo(i) ==
  IF i = 0 THEN 0 ELSE args.allPairs[i].liquidity + LiquidityUpTo(i - 1)

LiquidityOfAllPairs == LiquidityUpTo(Len(args.allPairs))

\* the six liquidity tiers, 1 (< $10K) to 6 (>= $1M)
LiquidityTier ==
  IF LiquidityOfAllPairs < 10000 THEN 1
  ELSE IF LiquidityOfAllPairs < 50000 THEN 2
  ELSE IF LiquidityOfAllPairs < 100000 THEN 3
  ELSE IF LiquidityOfAllPairs < 500000 THEN 4
  ELSE IF LiquidityOfAllPairs < 1000000 THEN 5
  ELSE 6

TierSubScore == <<90, 70, 60, 50, 30, 10>>

TierLevel == <<"Low", "Low", "Low", "Medium", "Medium", "High">>

TierFactor ==
  <<"Extremely low liquidity (<$10K)", "Very low liquidity (<$50K)",
    "Low liquidity (<$100K)", "Moderate liquidity (<$500K)",
    "No factor", "Strong liquidity">>

\* the liquidity factor strings of the assessment, red flags and positive
\* indicators together
LiquidityFactorsEmitted ==
  {i \in 1..6 : \/ HasFactor(result.redFlags, TierFactor[i])
                \/ HasFactor(result.positiveIndicators, TierFactor[i])}

\* everything the score adds besides the liquidity sub-score
DexOtherTerms ==
  (IF result.volume24h < 1000 THEN 20
   ELSE IF result.volume24h < 10000 THEN 10
   ELSE IF result.volume24h > 1000000 THEN -10 ELSE 0)
  + (IF 2 * result.buyToSellRatio.num < result.buyToSellRatio.den THEN 15
     ELSE IF result.buyToSellRatio.num > 2 * result.buyToSellRatio.den THEN -10
     ELSE 0)
  + (IF result.priceChange24h < -20 THEN 10
     ELSE IF result.priceChange24h > 50 THEN 15 ELSE 0)
  + (IF Cardinality({args.allPairs[i].dexId : i \in 1..Len(args.allPairs)}) > 3
     THEN -10 ELSE 0)

\* the tier of the summed liquidity sets the sub-score and the level, and
\* the sub-score is added to the running score
TierSetsSubScoreAndLevel ==
  /\ result.liquidity = LiquidityOfAllPairs
  /\ result.liquidityScore = TierSubScore[LiquidityTier]
  /\ result.liquidityScore >= 10 /\ result.liquidityScore <= 90
  /\ result.liquidityLevel = TierLevel[LiquidityTier]
  /\ result.riskScore = Max(0, Min(100, 50 + result.liquidityScore + DexOtherTerms))

\* C25 (as stated): the total liquidity, summed over all pairs, falls in
\* exactly one of six tiers (< $10K, < $50K, < $100K, < $500K, < $1M,
\* >= $1M); each tier sets a sub-score in [10,90] that is added to the
\* running score, a Low/Medium/High level, and emits its own factor string
C25_EveryTierEmitsItsFactor ==
  DexScored =>
    /\ TierSetsSubScoreAndLevel
    /\ LiquidityFactorsEmitted = {LiquidityTier}

\* C25 (amended): each of the six tiers sets its sub-score (90, 70, 60, 50,
\* 30, 10), which is added to the running score, and its level (Low below
\* $100K, Medium below $1M, High from $1M); the four tiers below $500K
\* emit their own red flag, the tier from $1M its own positive indicator,
\* and the tier from $500K to below $1M emits no factor string
C25_FiveTiersEmitTheirFactor ==
  DexScored =>
    /\ TierSetsSubScoreAndLevel
    /\ LiquidityTier # 5 => LiquidityFactorsEmitted = {LiquidityTier}
    /\ LiquidityTier # 5 =>
         (HasFactor(result.redFlags, TierFactor[LiquidityTier]) <=> LiquidityTier <= 4)
    /\ LiquidityTier = 5 => LiquidityFactorsEmitted = {}

\* a token whose pairs hold between $500K and $1M together was scored: the
\* sub-score 30 and the level Medium, and no liquidity factor
C25_Witness ==
  /\ DexScored
  /\ Len(args.allPairs) > 1
  /\ LiquidityTier = 5
  /\ result.liquidityScore = 30
  /\ result.liquidityLevel = "Medium"
  /\ LiquidityFactorsEmitted = {}

\* the volume tier and the volume-to-liquidity-ratio tier of an assessment
VolumeTier(r) ==
  IF r.volume24h < 1000 THEN 1 ELSE IF r.volume24h < 10000 THEN 2
  ELSE IF r.volume24h > 1000000 THEN 4 ELSE 3

VolumeToLiquidityTier(r) ==
  IF r.liquidity > 0 /\ 20 * r.volume24h >= r.liquidity
  THEN (IF r.volume24h > r.liquidity THEN 3 ELSE 2)
  ELSE 1

\* the pairs of the call with another 24h volume on the primary pair
WithVolume(v) ==
  [i \in 1..Len(args.allPairs) |->
     IF i = 1 THEN [args.allPairs[1] EXCEPT !.volume = v] ELSE args.allPairs[i]]

\* the score of the pairs with that volume; below 100 it was not clamped
ScoreWithVolume(v) ==
  calculateDexRiskAssessment(WithVolume(v)[1], WithVolume(v))

\* two volumes in each volume tier
VolumesInSameTier == {500, 700, 5000, 8000, 100000, 900000, 3000000, 4000000}

\* C26: the DEX score includes a volume-to-liquidity-ratio tier
\* adjustment: two records in the same liquidity, volume, buy/sell,
\* price-change and venue-count tiers but in different
\* volume-to-liquidity-ratio tiers get different scores before clamping
C26_RatioTierChangesScore ==
  DexScored =>
    \A v \in VolumesInSameTier :
      LET other == ScoreWithVolume(v)
      IN (/\ VolumeTier(other) = VolumeTier(result)
          /\ VolumeToLiquidityTier(other) # VolumeToLiquidityTier(result)
          /\ result.riskScore < 100 /\ other.riskScore < 100
          /\ result.riskScore > 0 /\ other.riskScore > 0)
         => other.riskScore # result.riskScore

\* the score the code computes: the ratio tier changes the factor strings
\* and leaves the score as it is
RatioTierOnlyFlagged ==
  DexScored =>
    /\ result.riskScore = Max(0, Min(100, 50 + result.liquidityScore + DexOtherTerms))
    /\ HasFactor(result.redFlags, "Very low volume-to-liquidity ratio")
         <=> VolumeToLiquidityTier(result) = 1
    /\ HasFactor(result.positiveIndicators, "Healthy volume-to-liquidity ratio")
         <=> VolumeToLiquidityTier(result) = 3
    /\ \A v \in VolumesInSameTier :
         VolumeTier(ScoreWithVolume(v)) = VolumeTier(result)
           => ScoreWithVolume(v).riskScore = result.riskScore

(***************************************************************************)
(* The sentiment bar.                                                      *)
(***************************************************************************)
ReportFormatted == call = "formatTwitterAnalysisReport"

\* C27: for every sentiment breakdown calculateTwitterRiskAssessment can
\* produce from the class counts of 1 to 20 analysed items,
\* generateSentimentBar computes non-negative positive, neutral and
\* negative segment counts that total exactly 20, so formatting the report
\* never fails on a negative repeat count
C27_SegmentsNonNegative ==
  ReportFormatted =>
    /\ result.sentimentBar.positiveBars >= 0
    /\ result.sentimentBar.neutralBars >= 0
    /\ result.sentimentBar.negativeBars >= 0
    /\ result.sentimentBar.positiveBars + result.sentimentBar.neutralBars
         + result.sentimentBar.negativeBars = 20
    /\ result.kind = "report"

\* what holds of the bar: the three counts total 20 and the first two are
\* not negative; the last is at least -1
SegmentsAsComputed ==
  ReportFormatted =>
    /\ result.sentimentBar.positiveBars >= 0
    /\ result.sentimentBar.neutralBars >= 0
    /\ result.sentimentBar.negativeBars >= -1
    /\ result.sentimentBar.positiveBars + result.sentimentBar.neutralBars
         + result.sentimentBar.negativeBars = 20
    /\ result.kind = "error" <=> result.sentimentBar.negativeBars = -1

(***************************************************************************)
(* The sentiment analysis in batches.                                      *)
(***************************************************************************)
TweetsAnalysed == call = "analyzeTweetSentimentsWithLLM"

\* the batch the k-th analysed tweet belongs to
BatchOf(k) == ((k - 1) \div 4) + 1

\* C28: analyzeTweetSentimentsWithLLM returns exactly one result per
\* analysed tweet, min(n, 20) results in input order, whatever batches of 4
\* fail: a failed batch gives neutral with score 0 for each of its tweets
\* and affects neither the results of the other batches nor whether the
\* later batches are attempted
C28_OneResultPerTweet ==
  TweetsAnalysed =>
    LET n == Len(args.tweets)
        analysed == Min(n, 20)
    IN /\ Len(result.results) = analysed
       /\ result.attempts = (analysed + 3) \div 4
       /\ \A k \in 1..analysed :
            /\ result.results[k].tweet = args.tweets[k]
            /\ args.answers[BatchOf(k)] = "throws"
                 => /\ result.results[k].sentiment = "neutral"
                    /\ result.results[k].sentimentScore = 0
            /\ args.answers[BatchOf(k)] # "throws"
                 => result.results[k].sentiment = args.answers[BatchOf(k)]

\* more than 20 tweets were found, the second batch failed and the batches
\* before and after it were analysed
C28_Witness ==
  /\ TweetsAnalysed
  /\ Len(args.tweets) > 20
  /\ args.answers[1] = "positive"
  /\ args.answers[2] = "throws"
  /\ args.answers[3] = "negative"
  /\ args.answers[5] = "throws"
  /\ Len(result.results) = 20
  /\ result.results[5].sentiment = "neutral"
  /\ result.results[9].sentiment = "negative"
  /\ result.attempts = 5

\* C29: the DEX risk score is never below 30 and never below 20 plus the
\* liquidity sub-score (capped at 100): with total liquidity below $100K
\* the score is above 70 and the level High whatever the volume, buy/sell
\* ratio, price change and venue count, and the level is Low only with
\* total liquidity of at least $1M
C29_LiquidityFloorsTheScore ==
  DexScored =>
    /\ result.riskScore >= 30
    /\ result.riskScore >= Min(100, 20 + result.liquidityScore)
    /\ LiquidityOfAllPairs < 100000
         => /\ result.riskScore > 70
            /\ result.riskLevel = "High"
    /\ result.riskLevel = "Low" => LiquidityOfAllPairs >= 1000000

\* the most favourable record below $100K of liquidity: volume above $1M,
\* more buys than sells, four venues; it scores 50 + 60 - 30 = 80, High
C29_Witness ==
  /\ DexScored
  /\ LiquidityTier = 3
  /\ DexOtherTerms = -30
  /\ result.riskScore = 80
  /\ result.riskLevel = "High"

\* the floors are reached: a record of the top liquidity tier scores 30
C29_FloorReached ==
  /\ DexScored
  /\ result.liquidityScore = 10
  /\ result.riskScore = 30
  /\ result.riskLevel = "Low"

(***************************************************************************)
(* Messages that are not the user's.                                       *)
(***************************************************************************)
\* C30: every agent (coordinator, chain, sentiment, market, DEX, analysis,
\* reporting) sends no chat message and starts no fetch or analysis when
\* the latest message of the action was not authored by the user
C30_OnlyUserMessagesAnswered ==
  /\ (call = "respondToChat" /\ args.latestMessage.author # "user")
       => /\ result.sent = << >>
          /\ result.started = "none"
  /\ request.author = "agent"
       => /\ messages = << >>
          /\ attempted = << >>
          /\ assessment = Null
          /\ pc = "done"
          /\ \A c \in CatSet : data[c] = Null

\* an agent's own message that names a project and asks for an analysis
\* reached one of the agents, and it stayed silent
C30_Witness ==
  /\ call = "respondToChat"
  /\ args.latestMessage.author = "agent"
  /\ args.latestMessage.isRequest
  /\ args.latestMessage.hasIdentifier
  /\ result = Silent

====
